---- MODULE Spec2Model ----
(***************************************************************************)
(* A model of the HR resource query chatbot backend: the RAGSystem class   *)
(* of src/backend/rag_system.py and the FastAPI handlers of                *)
(* src/backend/main.py.                                                    *)
(*                                                                         *)
(* Python str values are sequences of one-character strings, so that       *)
(* lower(), the "in" substring test, join and the regular expressions of   *)
(* _extract_requirements are computed character by character.  Optional    *)
(* values are sequences of length 0 (None) or 1.  Python lists are         *)
(* sequences; an index i of the code is i + 1 here.                        *)
(***************************************************************************)
EXTENDS Integers, Sequences, FiniteSets, TLC

VARIABLES
    data_file,        \* content of data/employees.json; None when the file is missing
    st_status,        \* what "from sentence_transformers import ..." and the model load do
    phase,            \* "startup" while main.py is being imported, then "serving"
    rag_system,       \* the module global rag_system of main.py
    request,          \* the request being handled, None between requests
    response,         \* the HTTP response to it
    last_search,      \* what search_employees returned inside generate_response
    earlier,          \* an earlier /chat request and the response it received
    libraries,        \* what the encoder or vectorizer and np.argsort compute in this process
    arg_query,        \* argument of a direct _extract_requirements call (fragments)
    ret_requirements, \* what that call returned
    in_flight         \* the POST /chat calls in progress when handlers interleave

vars == <<data_file, st_status, phase, rag_system, request, response,
          last_search, earlier, libraries, arg_query, ret_requirements, in_flight>>

(***************************************************************************)
(* Bounds of the model.                                                    *)
(***************************************************************************)
MaxEmployees == 3      \* employees in data/employees.json
MaxScore == 1          \* similarity scores are 0..MaxScore
MaxResults == 2        \* largest max_results of a request
MaxFragments == 3      \* fragments a directly extracted query is built from
MaxInFlight == 2       \* POST /chat calls in progress at the same time

(***************************************************************************)
(* Optional values and Python list slicing.                                *)
(***************************************************************************)
None == <<>>
Some(x) == <<x>>
IsNone(o) == o = <<>>
Get(o) == o[1]

Min(a, b) == IF a < b THEN a ELSE b
Max(a, b) == IF a > b THEN a ELSE b

\* seq[:k] of Python: a negative k counts from the end.
SliceTo(seq, k) ==
    IF k >= 0 THEN SubSeq(seq, 1, Min(k, Len(seq)))
    ELSE SubSeq(seq, 1, Max(Len(seq) + k, 0))

Reverse(seq) == [i \in 1..Len(seq) |-> seq[Len(seq) + 1 - i]]

RECURSIVE SumSeq(_)
SumSeq(seq) == IF seq = <<>> THEN 0 ELSE seq[1] + SumSeq(Tail(seq))

(***************************************************************************)
(* Strings.                                                                *)
(***************************************************************************)
\* The tables of str.lower(), of \s and of \d are those of Unicode 14.0.0, restricted
\* to the characters a string of this module can hold.
\* the characters str.lower() changes, in code point order
LowerFrom ==
    << "A", "B", "C", "D", "E", "F", "G", "H", "I", "J", "K", "L", "M", "N", "O", "P",
      "Q", "R", "S", "T", "U", "V", "W", "X", "Y", "Z", "À", "Á", "Â", "Ã", "Ä", "Å",
      "Æ", "Ç", "È", "É", "Ê", "Ë", "Ì", "Í", "Î", "Ï", "Ð", "Ñ", "Ò", "Ó", "Ô", "Õ",
      "Ö", "Ø", "Ù", "Ú", "Û", "Ü", "Ý", "Þ", "Ɓ", "Ƃ", "Ƅ", "Ɔ", "Ƈ", "Ɖ", "Ɗ", "Ƌ",
      "Ǝ", "Ə", "Ɛ", "Ƒ", "Ɠ", "Ɣ", "Ɩ", "Ɨ", "Ƙ", "Ɯ", "Ɲ", "Ɵ", "Ơ", "Ƣ", "Ƥ", "Ʀ",
      "Ƨ", "Ʃ", "Ƭ", "Ʈ", "Ư", "Ʊ", "Ʋ", "Ƴ", "Ƶ", "Ʒ", "Ƹ", "Ƽ", "Ǆ", "ǅ", "Ǉ", "ǈ",
      "Ǌ", "ǋ", "Ǎ", "Ǐ", "Ǒ", "Ǔ", "Ǖ", "Ǘ", "Ǚ", "Ǜ", "Ǟ", "Ǡ", "Ǣ", "Ǥ", "Ǧ", "Ǩ",
      "Ǫ", "Ǭ", "Ǯ", "Ǳ", "ǲ", "Ǵ", "Ƕ", "Ƿ", "Ǹ", "Ǻ", "Ǽ", "Ǿ", "Ά", "Έ", "Ή", "Ί",
      "Ό", "Ύ", "Ώ", "Α", "Β", "Γ", "Δ", "Ε", "Ζ", "Η", "Θ", "Ι", "Κ", "Λ", "Μ", "Ν",
      "Ξ", "Ο", "Π", "Ρ", "Σ", "Τ", "Υ", "Φ", "Χ", "Ψ", "Ω", "Ϊ", "Ϋ", "Ϗ", "Ϙ", "Ϛ",
      "Ϝ", "Ϟ", "Ϡ", "Ϣ", "Ϥ", "Ϧ", "Ϩ", "Ϫ", "Ϭ", "Ϯ", "ϴ", "Ϸ", "Ϲ", "Ϻ", "Ͻ", "Ͼ",
      "Ͽ", "Ҁ", "Ҋ", "Ҍ", "Ҏ", "Ґ", "Ғ", "Ҕ", "Җ", "Ҙ", "Қ", "Ҝ", "Ҟ", "Ҡ", "Ң", "Ҥ",
      "Ҧ", "Ҩ", "Ҫ", "Ҭ", "Ү", "Ұ", "Ҳ", "Ҵ", "Ҷ", "Ҹ", "Һ", "Ҽ", "Ҿ", "Ӏ", "Ӂ", "Ӄ",
      "Ӆ", "Ӈ", "Ӊ", "Ӌ", "Ӎ", "Ӑ", "Ӓ", "Ӕ", "Ӗ", "Ә", "Ӛ", "Ӝ", "Ӟ", "Ӡ", "Ӣ", "Ӥ",
      "Ӧ", "Ө", "Ӫ", "Ӭ", "Ӯ", "Ӱ", "Ӳ", "Ӵ", "Ӷ", "Ӹ", "Ӻ", "Ӽ", "Ӿ", "Ⴀ", "Ⴁ", "Ⴂ",
      "Ⴃ", "Ⴄ", "Ⴅ", "Ⴆ", "Ⴇ", "Ⴈ", "Ⴉ", "Ⴊ", "Ⴋ", "Ⴌ", "Ⴍ", "Ⴎ", "Ⴏ", "Ⴐ", "Ⴑ", "Ⴒ",
      "Ⴓ", "Ⴔ", "Ⴕ", "Ⴖ", "Ⴗ", "Ⴘ", "Ⴙ", "Ⴚ", "Ⴛ", "Ⴜ", "Ⴝ", "Ⴞ", "Ⴟ", "Ⴠ", "Ⴡ", "Ⴢ",
      "Ⴣ", "Ⴤ", "Ⴥ", "Ⴧ", "Ⴭ", "Ꭰ", "Ꭱ", "Ꭲ", "Ꭳ", "Ꭴ", "Ꭵ", "Ꭶ", "Ꭷ", "Ꭸ", "Ꭹ", "Ꭺ",
      "Ꭻ", "Ꭼ", "Ꭽ", "Ꭾ", "Ꭿ", "Ꮀ", "Ꮁ", "Ꮂ", "Ꮃ", "Ꮄ", "Ꮅ", "Ꮆ", "Ꮇ", "Ꮈ", "Ꮉ", "Ꮊ",
      "Ꮋ", "Ꮌ", "Ꮍ", "Ꮎ", "Ꮏ", "Ꮐ", "Ꮑ", "Ꮒ", "Ꮓ", "Ꮔ", "Ꮕ", "Ꮖ", "Ꮗ", "Ꮘ", "Ꮙ", "Ꮚ",
      "Ꮛ", "Ꮜ", "Ꮝ", "Ꮞ", "Ꮟ", "Ꮠ", "Ꮡ", "Ꮢ", "Ꮣ", "Ꮤ", "Ꮥ", "Ꮦ", "Ꮧ", "Ꮨ", "Ꮩ", "Ꮪ",
      "Ꮫ", "Ꮬ", "Ꮭ", "Ꮮ", "Ꮯ", "Ꮰ", "Ꮱ", "Ꮲ", "Ꮳ", "Ꮴ", "Ꮵ", "Ꮶ", "Ꮷ", "Ꮸ", "Ꮹ", "Ꮺ",
      "Ꮻ", "Ꮼ", "Ꮽ", "Ꮾ", "Ꮿ", "Ᏸ", "Ᏹ", "Ᏺ", "Ᏻ", "Ᏼ", "Ᏽ", "Ა", "Ბ", "Გ", "Დ", "Ე",
      "Ვ", "Ზ", "Თ", "Ი", "Კ", "Ლ", "Მ", "Ნ", "Ო", "Პ", "Ჟ", "Რ", "Ს", "Ტ", "Უ", "Ფ",
      "Ქ", "Ღ", "Ყ", "Შ", "Ჩ", "Ც", "Ძ", "Წ", "Ჭ", "Ხ", "Ჯ", "Ჰ", "Ჱ", "Ჲ", "Ჳ", "Ჴ",
      "Ჵ", "Ჶ", "Ჷ", "Ჸ", "Ჹ", "Ჺ", "Ჽ", "Ჾ", "Ჿ", "Ẁ", "Ẃ", "Ẅ", "Ẇ", "Ẉ", "Ẋ", "Ẍ",
      "Ẏ", "Ẑ", "Ẓ", "Ẕ", "ẞ", "Ạ", "Ả", "Ấ", "Ầ", "Ẩ", "Ẫ", "Ậ", "Ắ", "Ằ", "Ẳ", "Ẵ",
      "Ặ", "Ẹ", "Ẻ", "Ẽ", "Ế", "Ề", "Ể", "Ễ", "Ệ", "Ỉ", "Ị", "Ọ", "Ỏ", "Ố", "Ồ", "Ổ",
      "Ỗ", "Ộ", "Ớ", "Ờ", "Ở", "Ỡ", "Ợ", "Ụ", "Ủ", "Ứ", "Ừ", "Ử", "Ữ", "Ự", "Ỳ", "Ỵ",
      "Ỷ", "Ỹ", "Ỻ", "Ỽ", "Ỿ", "ᾈ", "ᾉ", "ᾊ", "ᾋ", "ᾌ", "ᾍ", "ᾎ", "ᾏ", "ᾘ", "ᾙ", "ᾚ",
      "ᾛ", "ᾜ", "ᾝ", "ᾞ", "ᾟ", "ᾨ", "ᾩ", "ᾪ", "ᾫ", "ᾬ", "ᾭ", "ᾮ", "ᾯ", "Ᾰ", "Ᾱ", "Ὰ",
      "Ά", "ᾼ", "Ὲ", "Έ", "Ὴ", "Ή", "ῌ", "Ῐ", "Ῑ", "Ὶ", "Ί", "Ῠ", "Ῡ", "Ὺ", "Ύ", "Ῥ",
      "Ὸ", "Ό", "Ὼ", "Ώ", "ῼ", "Ↄ", "Ⓐ", "Ⓑ", "Ⓒ", "Ⓓ", "Ⓔ", "Ⓕ", "Ⓖ", "Ⓗ", "Ⓘ", "Ⓙ",
      "Ⓚ", "Ⓛ", "Ⓜ", "Ⓝ", "Ⓞ", "Ⓟ", "Ⓠ", "Ⓡ", "Ⓢ", "Ⓣ", "Ⓤ", "Ⓥ", "Ⓦ", "Ⓧ", "Ⓨ", "Ⓩ",
      "Ⲁ", "Ⲃ", "Ⲅ", "Ⲇ", "Ⲉ", "Ⲋ", "Ⲍ", "Ⲏ", "Ⲑ", "Ⲓ", "Ⲕ", "Ⲗ", "Ⲙ", "Ⲛ", "Ⲝ", "Ⲟ",
      "Ⲡ", "Ⲣ", "Ⲥ", "Ⲧ", "Ⲩ", "Ⲫ", "Ⲭ", "Ⲯ", "Ⲱ", "Ⲳ", "Ⲵ", "Ⲷ", "Ⲹ", "Ⲻ", "Ⲽ", "Ⲿ",
      "Ⳁ", "Ⳃ", "Ⳅ", "Ⳇ", "Ⳉ", "Ⳋ", "Ⳍ", "Ⳏ", "Ⳑ", "Ⳓ", "Ⳕ", "Ⳗ", "Ⳙ", "Ⳛ", "Ⳝ", "Ⳟ",
      "Ⳡ", "Ⳣ", "Ⳬ", "Ⳮ", "Ⳳ", "Ꚁ", "Ꚃ", "Ꚅ", "Ꚇ", "Ꚉ", "Ꚋ", "Ꚍ", "Ꚏ", "Ꚑ", "Ꚓ", "Ꚕ",
      "Ꚗ", "Ꚙ", "Ꚛ", "Ꞁ", "Ꞃ", "Ꞅ", "Ꞇ", "Ꞌ", "Ɥ", "Ꞑ", "Ꞓ", "Ꞗ", "Ꞙ", "Ꞛ", "Ꞝ", "Ꞟ",
      "Ꞡ", "Ꞣ", "Ꞥ", "Ꞧ", "Ꞩ", "Ɦ", "Ɜ", "Ɡ", "Ɬ", "Ɪ", "Ʞ", "Ʇ", "Ʝ", "Ꭓ", "Ꞵ", "Ꞷ",
      "Ꞹ", "Ꞻ", "Ꞽ", "Ꞿ", "Ꟁ", "Ꟃ", "Ꞔ", "Ʂ", "Ᶎ", "Ꟈ", "Ꟊ", "Ꟑ", "Ꟗ", "Ꟙ", "Ꟶ" >>

\* what str.lower() makes of each, position by position; a small letter that no
\* string of this module can hold is named by its code point
LowerTo ==
    << "a", "b", "c", "d", "e", "f", "g", "h", "i", "j", "k", "l", "m", "n", "o", "p",
      "q", "r", "s", "t", "u", "v", "w", "x", "y", "z", "à", "á", "â", "ã", "ä", "å",
      "æ", "ç", "è", "é", "ê", "ë", "ì", "í", "î", "ï", "ð", "ñ", "ò", "ó", "ô", "õ",
      "ö", "ø", "ù", "ú", "û", "ü", "ý", "þ", "U+0253", "ƃ", "ƅ", "U+0254", "ƈ",
      "U+0256", "U+0257", "ƌ", "ǝ", "U+0259", "U+025B", "ƒ", "U+0260", "U+0263",
      "U+0269", "U+0268", "ƙ", "U+026F", "U+0272", "U+0275", "ơ", "ƣ", "ƥ", "ʀ", "ƨ",
      "ʃ", "ƭ", "ʈ", "ư", "ʊ", "ʋ", "ƴ", "ƶ", "ʒ", "ƹ", "ƽ", "ǆ", "ǆ", "ǉ", "ǉ", "ǌ",
      "ǌ", "ǎ", "ǐ", "ǒ", "ǔ", "ǖ", "ǘ", "ǚ", "ǜ", "ǟ", "ǡ", "ǣ", "ǥ", "ǧ", "ǩ", "ǫ",
      "ǭ", "ǯ", "ǳ", "ǳ", "ǵ", "ƕ", "ƿ", "ǹ", "ǻ", "ǽ", "ǿ", "ά", "έ", "ή", "ί", "ό",
      "ύ", "ώ", "α", "β", "γ", "δ", "ε", "ζ", "η", "θ", "ι", "κ", "λ", "μ", "ν", "ξ",
      "ο", "π", "ρ", "σ", "τ", "υ", "φ", "χ", "ψ", "ω", "ϊ", "ϋ", "ϗ", "ϙ", "ϛ", "ϝ",
      "ϟ", "ϡ", "ϣ", "ϥ", "ϧ", "ϩ", "ϫ", "ϭ", "ϯ", "θ", "ϸ", "ϲ", "ϻ", "U+037B",
      "U+037C", "U+037D", "ҁ", "ҋ", "ҍ", "ҏ", "ґ", "ғ", "ҕ", "җ", "ҙ", "қ", "ҝ", "ҟ",
      "ҡ", "ң", "ҥ", "ҧ", "ҩ", "ҫ", "ҭ", "ү", "ұ", "ҳ", "ҵ", "ҷ", "ҹ", "һ", "ҽ", "ҿ",
      "ӏ", "ӂ", "ӄ", "ӆ", "ӈ", "ӊ", "ӌ", "ӎ", "ӑ", "ӓ", "ӕ", "ӗ", "ә", "ӛ", "ӝ", "ӟ",
      "ӡ", "ӣ", "ӥ", "ӧ", "ө", "ӫ", "ӭ", "ӯ", "ӱ", "ӳ", "ӵ", "ӷ", "ӹ", "ӻ", "ӽ", "ӿ",
      "U+2D00", "U+2D01", "U+2D02", "U+2D03", "U+2D04", "U+2D05", "U+2D06", "U+2D07",
      "U+2D08", "U+2D09", "U+2D0A", "U+2D0B", "U+2D0C", "U+2D0D", "U+2D0E", "U+2D0F",
      "U+2D10", "U+2D11", "U+2D12", "U+2D13", "U+2D14", "U+2D15", "U+2D16", "U+2D17",
      "U+2D18", "U+2D19", "U+2D1A", "U+2D1B", "U+2D1C", "U+2D1D", "U+2D1E", "U+2D1F",
      "U+2D20", "U+2D21", "U+2D22", "U+2D23", "U+2D24", "U+2D25", "U+2D27", "U+2D2D",
      "U+AB70", "U+AB71", "U+AB72", "U+AB73", "U+AB74", "U+AB75", "U+AB76", "U+AB77",
      "U+AB78", "U+AB79", "U+AB7A", "U+AB7B", "U+AB7C", "U+AB7D", "U+AB7E", "U+AB7F",
      "ꮀ", "ꮁ", "ꮂ", "ꮃ", "ꮄ", "ꮅ", "ꮆ", "ꮇ", "ꮈ", "ꮉ", "ꮊ", "ꮋ", "ꮌ", "ꮍ", "ꮎ", "ꮏ",
      "ꮐ", "ꮑ", "ꮒ", "ꮓ", "ꮔ", "ꮕ", "ꮖ", "ꮗ", "ꮘ", "ꮙ", "ꮚ", "ꮛ", "ꮜ", "ꮝ", "ꮞ", "ꮟ",
      "ꮠ", "ꮡ", "ꮢ", "ꮣ", "ꮤ", "ꮥ", "ꮦ", "ꮧ", "ꮨ", "ꮩ", "ꮪ", "ꮫ", "ꮬ", "ꮭ", "ꮮ", "ꮯ",
      "ꮰ", "ꮱ", "ꮲ", "ꮳ", "ꮴ", "ꮵ", "ꮶ", "ꮷ", "ꮸ", "ꮹ", "ꮺ", "ꮻ", "ꮼ", "ꮽ", "ꮾ", "ꮿ",
      "ᏸ", "ᏹ", "ᏺ", "ᏻ", "ᏼ", "ᏽ", "ა", "ბ", "გ", "დ", "ე", "ვ", "ზ", "თ", "ი", "კ",
      "ლ", "მ", "ნ", "ო", "პ", "ჟ", "რ", "ს", "ტ", "უ", "ფ", "ქ", "ღ", "ყ", "შ", "ჩ",
      "ც", "ძ", "წ", "ჭ", "ხ", "ჯ", "ჰ", "ჱ", "ჲ", "ჳ", "ჴ", "ჵ", "ჶ", "ჷ", "ჸ", "ჹ",
      "ჺ", "ჽ", "ჾ", "ჿ", "ẁ", "ẃ", "ẅ", "ẇ", "ẉ", "ẋ", "ẍ", "ẏ", "ẑ", "ẓ", "ẕ", "ß",
      "ạ", "ả", "ấ", "ầ", "ẩ", "ẫ", "ậ", "ắ", "ằ", "ẳ", "ẵ", "ặ", "ẹ", "ẻ", "ẽ", "ế",
      "ề", "ể", "ễ", "ệ", "ỉ", "ị", "ọ", "ỏ", "ố", "ồ", "ổ", "ỗ", "ộ", "ớ", "ờ", "ở",
      "ỡ", "ợ", "ụ", "ủ", "ứ", "ừ", "ử", "ữ", "ự", "ỳ", "ỵ", "ỷ", "ỹ", "ỻ", "ỽ", "ỿ",
      "ᾀ", "ᾁ", "ᾂ", "ᾃ", "ᾄ", "ᾅ", "ᾆ", "ᾇ", "ᾐ", "ᾑ", "ᾒ", "ᾓ", "ᾔ", "ᾕ", "ᾖ", "ᾗ",
      "ᾠ", "ᾡ", "ᾢ", "ᾣ", "ᾤ", "ᾥ", "ᾦ", "ᾧ", "ᾰ", "ᾱ", "U+1F70", "U+1F71", "ᾳ",
      "U+1F72", "U+1F73", "U+1F74", "U+1F75", "ῃ", "ῐ", "ῑ", "U+1F76", "U+1F77", "ῠ",
      "ῡ", "U+1F7A", "U+1F7B", "ῥ", "U+1F78", "U+1F79", "U+1F7C", "U+1F7D", "ῳ", "ↄ",
      "ⓐ", "ⓑ", "ⓒ", "ⓓ", "ⓔ", "ⓕ", "ⓖ", "ⓗ", "ⓘ", "ⓙ", "ⓚ", "ⓛ", "ⓜ", "ⓝ", "ⓞ", "ⓟ",
      "ⓠ", "ⓡ", "ⓢ", "ⓣ", "ⓤ", "ⓥ", "ⓦ", "ⓧ", "ⓨ", "ⓩ", "ⲁ", "ⲃ", "ⲅ", "ⲇ", "ⲉ", "ⲋ",
      "ⲍ", "ⲏ", "ⲑ", "ⲓ", "ⲕ", "ⲗ", "ⲙ", "ⲛ", "ⲝ", "ⲟ", "ⲡ", "ⲣ", "ⲥ", "ⲧ", "ⲩ", "ⲫ",
      "ⲭ", "ⲯ", "ⲱ", "ⲳ", "ⲵ", "ⲷ", "ⲹ", "ⲻ", "ⲽ", "ⲿ", "ⳁ", "ⳃ", "ⳅ", "ⳇ", "ⳉ", "ⳋ",
      "ⳍ", "ⳏ", "ⳑ", "ⳓ", "ⳕ", "ⳗ", "ⳙ", "ⳛ", "ⳝ", "ⳟ", "ⳡ", "ⳣ", "ⳬ", "ⳮ", "ⳳ", "ꚁ",
      "ꚃ", "ꚅ", "ꚇ", "ꚉ", "ꚋ", "ꚍ", "ꚏ", "ꚑ", "ꚓ", "ꚕ", "ꚗ", "ꚙ", "ꚛ", "ꞁ", "ꞃ", "ꞅ",
      "ꞇ", "ꞌ", "U+0265", "ꞑ", "ꞓ", "ꞗ", "ꞙ", "ꞛ", "ꞝ", "ꞟ", "ꞡ", "ꞣ", "ꞥ", "ꞧ", "ꞩ",
      "U+0266", "U+025C", "U+0261", "U+026C", "U+026A", "ʞ", "ʇ", "ʝ", "U+AB53", "ꞵ",
      "ꞷ", "ꞹ", "ꞻ", "ꞽ", "ꞿ", "ꟁ", "ꟃ", "ꞔ", "ʂ", "ᶎ", "ꟈ", "ꟊ", "ꟑ", "ꟗ", "ꟙ", "ꟶ" >>

UpperToLower ==
    [c \in {LowerFrom[i] : i \in DOMAIN LowerFrom} |->
       LowerTo[CHOOSE i \in DOMAIN LowerFrom : LowerFrom[i] = c]]

\* the characters with the property Cased
Cased ==
    { "A", "B", "C", "D", "E", "F", "G", "H", "I", "J", "K", "L", "M", "N", "O", "P",
      "Q", "R", "S", "T", "U", "V", "W", "X", "Y", "Z", "a", "b", "c", "d", "e", "f",
      "g", "h", "i", "j", "k", "l", "m", "n", "o", "p", "q", "r", "s", "t", "u", "v",
      "w", "x", "y", "z", "ª", "µ", "º", "À", "Á", "Â", "Ã", "Ä", "Å", "Æ", "Ç", "È",
      "É", "Ê", "Ë", "Ì", "Í", "Î", "Ï", "Ð", "Ñ", "Ò", "Ó", "Ô", "Õ", "Ö", "Ø", "Ù",
      "Ú", "Û", "Ü", "Ý", "Þ", "ß", "à", "á", "â", "ã", "ä", "å", "æ", "ç", "è", "é",
      "ê", "ë", "ì", "í", "î", "ï", "ð", "ñ", "ò", "ó", "ô", "õ", "ö", "ø", "ù", "ú",
      "û", "ü", "ý", "þ", "ÿ", "ƀ", "Ɓ", "Ƃ", "ƃ", "Ƅ", "ƅ", "Ɔ", "Ƈ", "ƈ", "Ɖ", "Ɗ",
      "Ƌ", "ƌ", "ƍ", "Ǝ", "Ə", "Ɛ", "Ƒ", "ƒ", "Ɠ", "Ɣ", "ƕ", "Ɩ", "Ɨ", "Ƙ", "ƙ", "ƚ",
      "ƛ", "Ɯ", "Ɲ", "ƞ", "Ɵ", "Ơ", "ơ", "Ƣ", "ƣ", "Ƥ", "ƥ", "Ʀ", "Ƨ", "ƨ", "Ʃ", "ƪ",
      "ƫ", "Ƭ", "ƭ", "Ʈ", "Ư", "ư", "Ʊ", "Ʋ", "Ƴ", "ƴ", "Ƶ", "ƶ", "Ʒ", "Ƹ", "ƹ", "ƺ",
      "Ƽ", "ƽ", "ƾ", "ƿ", "Ǆ", "ǅ", "ǆ", "Ǉ", "ǈ", "ǉ", "Ǌ", "ǋ", "ǌ", "Ǎ", "ǎ", "Ǐ",
      "ǐ", "Ǒ", "ǒ", "Ǔ", "ǔ", "Ǖ", "ǖ", "Ǘ", "ǘ", "Ǚ", "ǚ", "Ǜ", "ǜ", "ǝ", "Ǟ", "ǟ",
      "Ǡ", "ǡ", "Ǣ", "ǣ", "Ǥ", "ǥ", "Ǧ", "ǧ", "Ǩ", "ǩ", "Ǫ", "ǫ", "Ǭ", "ǭ", "Ǯ", "ǯ",
      "ǰ", "Ǳ", "ǲ", "ǳ", "Ǵ", "ǵ", "Ƕ", "Ƿ", "Ǹ", "ǹ", "Ǻ", "ǻ", "Ǽ", "ǽ", "Ǿ", "ǿ",
      "ʀ", "ʁ", "ʂ", "ʃ", "ʄ", "ʅ", "ʆ", "ʇ", "ʈ", "ʉ", "ʊ", "ʋ", "ʌ", "ʍ", "ʎ", "ʏ",
      "ʐ", "ʑ", "ʒ", "ʓ", "ʕ", "ʖ", "ʗ", "ʘ", "ʙ", "ʚ", "ʛ", "ʜ", "ʝ", "ʞ", "ʟ", "ʠ",
      "ʡ", "ʢ", "ʣ", "ʤ", "ʥ", "ʦ", "ʧ", "ʨ", "ʩ", "ʪ", "ʫ", "ʬ", "ʭ", "ʮ", "ʯ", "ʰ",
      "ʱ", "ʲ", "ʳ", "ʴ", "ʵ", "ʶ", "ʷ", "ʸ", "ˀ", "ˁ", "ˠ", "ˡ", "ˢ", "ˣ", "ˤ", "Ά",
      "Έ", "Ή", "Ί", "Ό", "Ύ", "Ώ", "ΐ", "Α", "Β", "Γ", "Δ", "Ε", "Ζ", "Η", "Θ", "Ι",
      "Κ", "Λ", "Μ", "Ν", "Ξ", "Ο", "Π", "Ρ", "Σ", "Τ", "Υ", "Φ", "Χ", "Ψ", "Ω", "Ϊ",
      "Ϋ", "ά", "έ", "ή", "ί", "ΰ", "α", "β", "γ", "δ", "ε", "ζ", "η", "θ", "ι", "κ",
      "λ", "μ", "ν", "ξ", "ο", "π", "ρ", "ς", "σ", "τ", "υ", "φ", "χ", "ψ", "ω", "ϊ",
      "ϋ", "ό", "ύ", "ώ", "Ϗ", "ϐ", "ϑ", "ϒ", "ϓ", "ϔ", "ϕ", "ϖ", "ϗ", "Ϙ", "ϙ", "Ϛ",
      "ϛ", "Ϝ", "ϝ", "Ϟ", "ϟ", "Ϡ", "ϡ", "Ϣ", "ϣ", "Ϥ", "ϥ", "Ϧ", "ϧ", "Ϩ", "ϩ", "Ϫ",
      "ϫ", "Ϭ", "ϭ", "Ϯ", "ϯ", "ϰ", "ϱ", "ϲ", "ϳ", "ϴ", "ϵ", "Ϸ", "ϸ", "Ϲ", "Ϻ", "ϻ",
      "ϼ", "Ͻ", "Ͼ", "Ͽ", "Ҁ", "ҁ", "Ҋ", "ҋ", "Ҍ", "ҍ", "Ҏ", "ҏ", "Ґ", "ґ", "Ғ", "ғ",
      "Ҕ", "ҕ", "Җ", "җ", "Ҙ", "ҙ", "Қ", "қ", "Ҝ", "ҝ", "Ҟ", "ҟ", "Ҡ", "ҡ", "Ң", "ң",
      "Ҥ", "ҥ", "Ҧ", "ҧ", "Ҩ", "ҩ", "Ҫ", "ҫ", "Ҭ", "ҭ", "Ү", "ү", "Ұ", "ұ", "Ҳ", "ҳ",
      "Ҵ", "ҵ", "Ҷ", "ҷ", "Ҹ", "ҹ", "Һ", "һ", "Ҽ", "ҽ", "Ҿ", "ҿ", "Ӏ", "Ӂ", "ӂ", "Ӄ",
      "ӄ", "Ӆ", "ӆ", "Ӈ", "ӈ", "Ӊ", "ӊ", "Ӌ", "ӌ", "Ӎ", "ӎ", "ӏ", "Ӑ", "ӑ", "Ӓ", "ӓ",
      "Ӕ", "ӕ", "Ӗ", "ӗ", "Ә", "ә", "Ӛ", "ӛ", "Ӝ", "ӝ", "Ӟ", "ӟ", "Ӡ", "ӡ", "Ӣ", "ӣ",
      "Ӥ", "ӥ", "Ӧ", "ӧ", "Ө", "ө", "Ӫ", "ӫ", "Ӭ", "ӭ", "Ӯ", "ӯ", "Ӱ", "ӱ", "Ӳ", "ӳ",
      "Ӵ", "ӵ", "Ӷ", "ӷ", "Ӹ", "ӹ", "Ӻ", "ӻ", "Ӽ", "ӽ", "Ӿ", "ӿ", "ր", "ց", "ւ", "փ",
      "ք", "օ", "ֆ", "և", "ֈ", "Ⴀ", "Ⴁ", "Ⴂ", "Ⴃ", "Ⴄ", "Ⴅ", "Ⴆ", "Ⴇ", "Ⴈ", "Ⴉ", "Ⴊ",
      "Ⴋ", "Ⴌ", "Ⴍ", "Ⴎ", "Ⴏ", "Ⴐ", "Ⴑ", "Ⴒ", "Ⴓ", "Ⴔ", "Ⴕ", "Ⴖ", "Ⴗ", "Ⴘ", "Ⴙ", "Ⴚ",
      "Ⴛ", "Ⴜ", "Ⴝ", "Ⴞ", "Ⴟ", "Ⴠ", "Ⴡ", "Ⴢ", "Ⴣ", "Ⴤ", "Ⴥ", "Ⴧ", "Ⴭ", "ა", "ბ", "გ",
      "დ", "ე", "ვ", "ზ", "თ", "ი", "კ", "ლ", "მ", "ნ", "ო", "პ", "ჟ", "რ", "ს", "ტ",
      "უ", "ფ", "ქ", "ღ", "ყ", "შ", "ჩ", "ც", "ძ", "წ", "ჭ", "ხ", "ჯ", "ჰ", "ჱ", "ჲ",
      "ჳ", "ჴ", "ჵ", "ჶ", "ჷ", "ჸ", "ჹ", "ჺ", "ჽ", "ჾ", "ჿ", "Ꭰ", "Ꭱ", "Ꭲ", "Ꭳ", "Ꭴ",
      "Ꭵ", "Ꭶ", "Ꭷ", "Ꭸ", "Ꭹ", "Ꭺ", "Ꭻ", "Ꭼ", "Ꭽ", "Ꭾ", "Ꭿ", "Ꮀ", "Ꮁ", "Ꮂ", "Ꮃ", "Ꮄ",
      "Ꮅ", "Ꮆ", "Ꮇ", "Ꮈ", "Ꮉ", "Ꮊ", "Ꮋ", "Ꮌ", "Ꮍ", "Ꮎ", "Ꮏ", "Ꮐ", "Ꮑ", "Ꮒ", "Ꮓ", "Ꮔ",
      "Ꮕ", "Ꮖ", "Ꮗ", "Ꮘ", "Ꮙ", "Ꮚ", "Ꮛ", "Ꮜ", "Ꮝ", "Ꮞ", "Ꮟ", "Ꮠ", "Ꮡ", "Ꮢ", "Ꮣ", "Ꮤ",
      "Ꮥ", "Ꮦ", "Ꮧ", "Ꮨ", "Ꮩ", "Ꮪ", "Ꮫ", "Ꮬ", "Ꮭ", "Ꮮ", "Ꮯ", "Ꮰ", "Ꮱ", "Ꮲ", "Ꮳ", "Ꮴ",
      "Ꮵ", "Ꮶ", "Ꮷ", "Ꮸ", "Ꮹ", "Ꮺ", "Ꮻ", "Ꮼ", "Ꮽ", "Ꮾ", "Ꮿ", "Ᏸ", "Ᏹ", "Ᏺ", "Ᏻ", "Ᏼ",
      "Ᏽ", "ᏸ", "ᏹ", "ᏺ", "ᏻ", "ᏼ", "ᏽ", "ᲀ", "ᲁ", "ᲂ", "ᲃ", "ᲄ", "ᲅ", "ᲆ", "ᲇ", "ᲈ",
      "Ა", "Ბ", "Გ", "Დ", "Ე", "Ვ", "Ზ", "Თ", "Ი", "Კ", "Ლ", "Მ", "Ნ", "Ო", "Პ", "Ჟ",
      "Რ", "Ს", "Ტ", "Უ", "Ფ", "Ქ", "Ღ", "Ყ", "Შ", "Ჩ", "Ც", "Ძ", "Წ", "Ჭ", "Ხ", "Ჯ",
      "Ჰ", "Ჱ", "Ჲ", "Ჳ", "Ჴ", "Ჵ", "Ჶ", "Ჷ", "Ჸ", "Ჹ", "Ჺ", "Ჽ", "Ჾ", "Ჿ", "ᶀ", "ᶁ",
      "ᶂ", "ᶃ", "ᶄ", "ᶅ", "ᶆ", "ᶇ", "ᶈ", "ᶉ", "ᶊ", "ᶋ", "ᶌ", "ᶍ", "ᶎ", "ᶏ", "ᶐ", "ᶑ",
      "ᶒ", "ᶓ", "ᶔ", "ᶕ", "ᶖ", "ᶗ", "ᶘ", "ᶙ", "ᶚ", "ᶛ", "ᶜ", "ᶝ", "ᶞ", "ᶟ", "ᶠ", "ᶡ",
      "ᶢ", "ᶣ", "ᶤ", "ᶥ", "ᶦ", "ᶧ", "ᶨ", "ᶩ", "ᶪ", "ᶫ", "ᶬ", "ᶭ", "ᶮ", "ᶯ", "ᶰ", "ᶱ",
      "ᶲ", "ᶳ", "ᶴ", "ᶵ", "ᶶ", "ᶷ", "ᶸ", "ᶹ", "ᶺ", "ᶻ", "ᶼ", "ᶽ", "ᶾ", "ᶿ", "Ẁ", "ẁ",
      "Ẃ", "ẃ", "Ẅ", "ẅ", "Ẇ", "ẇ", "Ẉ", "ẉ", "Ẋ", "ẋ", "Ẍ", "ẍ", "Ẏ", "ẏ", "Ẑ", "ẑ",
      "Ẓ", "ẓ", "Ẕ", "ẕ", "ẖ", "ẗ", "ẘ", "ẙ", "ẚ", "ẛ", "ẜ", "ẝ", "ẞ", "ẟ", "Ạ", "ạ",
      "Ả", "ả", "Ấ", "ấ", "Ầ", "ầ", "Ẩ", "ẩ", "Ẫ", "ẫ", "Ậ", "ậ", "Ắ", "ắ", "Ằ", "ằ",
      "Ẳ", "ẳ", "Ẵ", "ẵ", "Ặ", "ặ", "Ẹ", "ẹ", "Ẻ", "ẻ", "Ẽ", "ẽ", "Ế", "ế", "Ề", "ề",
      "Ể", "ể", "Ễ", "ễ", "Ệ", "ệ", "Ỉ", "ỉ", "Ị", "ị", "Ọ", "ọ", "Ỏ", "ỏ", "Ố", "ố",
      "Ồ", "ồ", "Ổ", "ổ", "Ỗ", "ỗ", "Ộ", "ộ", "Ớ", "ớ", "Ờ", "ờ", "Ở", "ở", "Ỡ", "ỡ",
      "Ợ", "ợ", "Ụ", "ụ", "Ủ", "ủ", "Ứ", "ứ", "Ừ", "ừ", "Ử", "ử", "Ữ", "ữ", "Ự", "ự",
      "Ỳ", "ỳ", "Ỵ", "ỵ", "Ỷ", "ỷ", "Ỹ", "ỹ", "Ỻ", "ỻ", "Ỽ", "ỽ", "Ỿ", "ỿ", "ᾀ", "ᾁ",
      "ᾂ", "ᾃ", "ᾄ", "ᾅ", "ᾆ", "ᾇ", "ᾈ", "ᾉ", "ᾊ", "ᾋ", "ᾌ", "ᾍ", "ᾎ", "ᾏ", "ᾐ", "ᾑ",
      "ᾒ", "ᾓ", "ᾔ", "ᾕ", "ᾖ", "ᾗ", "ᾘ", "ᾙ", "ᾚ", "ᾛ", "ᾜ", "ᾝ", "ᾞ", "ᾟ", "ᾠ", "ᾡ",
      "ᾢ", "ᾣ", "ᾤ", "ᾥ", "ᾦ", "ᾧ", "ᾨ", "ᾩ", "ᾪ", "ᾫ", "ᾬ", "ᾭ", "ᾮ", "ᾯ", "ᾰ", "ᾱ",
      "ᾲ", "ᾳ", "ᾴ", "ᾶ", "ᾷ", "Ᾰ", "Ᾱ", "Ὰ", "Ά", "ᾼ", "ι", "ῂ", "ῃ", "ῄ", "ῆ", "ῇ",
      "Ὲ", "Έ", "Ὴ", "Ή", "ῌ", "ῐ", "ῑ", "ῒ", "ΐ", "ῖ", "ῗ", "Ῐ", "Ῑ", "Ὶ", "Ί", "ῠ",
      "ῡ", "ῢ", "ΰ", "ῤ", "ῥ", "ῦ", "ῧ", "Ῠ", "Ῡ", "Ὺ", "Ύ", "Ῥ", "ῲ", "ῳ", "ῴ", "ῶ",
      "ῷ", "Ὸ", "Ό", "Ὼ", "Ώ", "ῼ", "ₐ", "ₑ", "ₒ", "ₓ", "ₔ", "ₕ", "ₖ", "ₗ", "ₘ", "ₙ",
      "ₚ", "ₛ", "ₜ", "Ↄ", "ↄ", "Ⓐ", "Ⓑ", "Ⓒ", "Ⓓ", "Ⓔ", "Ⓕ", "Ⓖ", "Ⓗ", "Ⓘ", "Ⓙ", "Ⓚ",
      "Ⓛ", "Ⓜ", "Ⓝ", "Ⓞ", "Ⓟ", "Ⓠ", "Ⓡ", "Ⓢ", "Ⓣ", "Ⓤ", "Ⓥ", "Ⓦ", "Ⓧ", "Ⓨ", "Ⓩ", "ⓐ",
      "ⓑ", "ⓒ", "ⓓ", "ⓔ", "ⓕ", "ⓖ", "ⓗ", "ⓘ", "ⓙ", "ⓚ", "ⓛ", "ⓜ", "ⓝ", "ⓞ", "ⓟ", "ⓠ",
      "ⓡ", "ⓢ", "ⓣ", "ⓤ", "ⓥ", "ⓦ", "ⓧ", "ⓨ", "ⓩ", "Ⲁ", "ⲁ", "Ⲃ", "ⲃ", "Ⲅ", "ⲅ", "Ⲇ",
      "ⲇ", "Ⲉ", "ⲉ", "Ⲋ", "ⲋ", "Ⲍ", "ⲍ", "Ⲏ", "ⲏ", "Ⲑ", "ⲑ", "Ⲓ", "ⲓ", "Ⲕ", "ⲕ", "Ⲗ",
      "ⲗ", "Ⲙ", "ⲙ", "Ⲛ", "ⲛ", "Ⲝ", "ⲝ", "Ⲟ", "ⲟ", "Ⲡ", "ⲡ", "Ⲣ", "ⲣ", "Ⲥ", "ⲥ", "Ⲧ",
      "ⲧ", "Ⲩ", "ⲩ", "Ⲫ", "ⲫ", "Ⲭ", "ⲭ", "Ⲯ", "ⲯ", "Ⲱ", "ⲱ", "Ⲳ", "ⲳ", "Ⲵ", "ⲵ", "Ⲷ",
      "ⲷ", "Ⲹ", "ⲹ", "Ⲻ", "ⲻ", "Ⲽ", "ⲽ", "Ⲿ", "ⲿ", "Ⳁ", "ⳁ", "Ⳃ", "ⳃ", "Ⳅ", "ⳅ", "Ⳇ",
      "ⳇ", "Ⳉ", "ⳉ", "Ⳋ", "ⳋ", "Ⳍ", "ⳍ", "Ⳏ", "ⳏ", "Ⳑ", "ⳑ", "Ⳓ", "ⳓ", "Ⳕ", "ⳕ", "Ⳗ",
      "ⳗ", "Ⳙ", "ⳙ", "Ⳛ", "ⳛ", "Ⳝ", "ⳝ", "Ⳟ", "ⳟ", "Ⳡ", "ⳡ", "Ⳣ", "ⳣ", "ⳤ", "Ⳬ", "ⳬ",
      "Ⳮ", "ⳮ", "Ⳳ", "ⳳ", "Ꚁ", "ꚁ", "Ꚃ", "ꚃ", "Ꚅ", "ꚅ", "Ꚇ", "ꚇ", "Ꚉ", "ꚉ", "Ꚋ", "ꚋ",
      "Ꚍ", "ꚍ", "Ꚏ", "ꚏ", "Ꚑ", "ꚑ", "Ꚓ", "ꚓ", "Ꚕ", "ꚕ", "Ꚗ", "ꚗ", "Ꚙ", "ꚙ", "Ꚛ", "ꚛ",
      "ꚜ", "ꚝ", "Ꞁ", "ꞁ", "Ꞃ", "ꞃ", "Ꞅ", "ꞅ", "Ꞇ", "ꞇ", "Ꞌ", "ꞌ", "Ɥ", "ꞎ", "Ꞑ", "ꞑ",
      "Ꞓ", "ꞓ", "ꞔ", "ꞕ", "Ꞗ", "ꞗ", "Ꞙ", "ꞙ", "Ꞛ", "ꞛ", "Ꞝ", "ꞝ", "Ꞟ", "ꞟ", "Ꞡ", "ꞡ",
      "Ꞣ", "ꞣ", "Ꞥ", "ꞥ", "Ꞧ", "ꞧ", "Ꞩ", "ꞩ", "Ɦ", "Ɜ", "Ɡ", "Ɬ", "Ɪ", "ꞯ", "Ʞ", "Ʇ",
      "Ʝ", "Ꭓ", "Ꞵ", "ꞵ", "Ꞷ", "ꞷ", "Ꞹ", "ꞹ", "Ꞻ", "ꞻ", "Ꞽ", "ꞽ", "Ꞿ", "ꞿ", "Ꟁ", "ꟁ",
      "Ꟃ", "ꟃ", "Ꞔ", "Ʂ", "Ᶎ", "Ꟈ", "ꟈ", "Ꟊ", "ꟊ", "Ꟑ", "ꟑ", "ꟓ", "ꟕ", "Ꟗ", "ꟗ", "Ꟙ",
      "ꟙ", "Ꟶ", "ꟶ", "ꟸ", "ꟹ", "ꟺ", "ꮀ", "ꮁ", "ꮂ", "ꮃ", "ꮄ", "ꮅ", "ꮆ", "ꮇ", "ꮈ", "ꮉ",
      "ꮊ", "ꮋ", "ꮌ", "ꮍ", "ꮎ", "ꮏ", "ꮐ", "ꮑ", "ꮒ", "ꮓ", "ꮔ", "ꮕ", "ꮖ", "ꮗ", "ꮘ", "ꮙ",
      "ꮚ", "ꮛ", "ꮜ", "ꮝ", "ꮞ", "ꮟ", "ꮠ", "ꮡ", "ꮢ", "ꮣ", "ꮤ", "ꮥ", "ꮦ", "ꮧ", "ꮨ", "ꮩ",
      "ꮪ", "ꮫ", "ꮬ", "ꮭ", "ꮮ", "ꮯ", "ꮰ", "ꮱ", "ꮲ", "ꮳ", "ꮴ", "ꮵ", "ꮶ", "ꮷ", "ꮸ", "ꮹ",
      "ꮺ", "ꮻ", "ꮼ", "ꮽ", "ꮾ", "ꮿ", "U+0253", "U+0254", "U+0256", "U+0257", "U+0259",
      "U+025B", "U+025C", "U+0260", "U+0261", "U+0263", "U+0265", "U+0266", "U+0268",
      "U+0269", "U+026A", "U+026C", "U+026F", "U+0272", "U+0275", "U+037B", "U+037C",
      "U+037D", "U+1F70", "U+1F71", "U+1F72", "U+1F73", "U+1F74", "U+1F75", "U+1F76",
      "U+1F77", "U+1F78", "U+1F79", "U+1F7A", "U+1F7B", "U+1F7C", "U+1F7D", "U+2D00",
      "U+2D01", "U+2D02", "U+2D03", "U+2D04", "U+2D05", "U+2D06", "U+2D07", "U+2D08",
      "U+2D09", "U+2D0A", "U+2D0B", "U+2D0C", "U+2D0D", "U+2D0E", "U+2D0F", "U+2D10",
      "U+2D11", "U+2D12", "U+2D13", "U+2D14", "U+2D15", "U+2D16", "U+2D17", "U+2D18",
      "U+2D19", "U+2D1A", "U+2D1B", "U+2D1C", "U+2D1D", "U+2D1E", "U+2D1F", "U+2D20",
      "U+2D21", "U+2D22", "U+2D23", "U+2D24", "U+2D25", "U+2D27", "U+2D2D", "U+AB53",
      "U+AB70", "U+AB71", "U+AB72", "U+AB73", "U+AB74", "U+AB75", "U+AB76", "U+AB77",
      "U+AB78", "U+AB79", "U+AB7A", "U+AB7B", "U+AB7C", "U+AB7D", "U+AB7E", "U+AB7F" }

\* the characters with the property Case_Ignorable
CaseIgnorable ==
    { "'", ".", ":", "^", "¨", "­", "¯", "´", "·", "¸", "ʰ", "ʱ", "ʲ", "ʳ", "ʴ",
      "ʵ", "ʶ", "ʷ", "ʸ", "ʹ", "ʺ", "ʻ", "ʼ", "ʽ", "ʾ", "ʿ", "ˀ", "ˁ", "˂", "˃", "˄",
      "˅", "ˆ", "ˇ", "ˈ", "ˉ", "ˊ", "ˋ", "ˌ", "ˍ", "ˎ", "ˏ", "ː", "ˑ", "˒", "˓", "˔",
      "˕", "˖", "˗", "˘", "˙", "˚", "˛", "˜", "˝", "˞", "˟", "ˠ", "ˡ", "ˢ", "ˣ", "ˤ",
      "˥", "˦", "˧", "˨", "˩", "˪", "˫", "ˬ", "˭", "ˮ", "˯", "˰", "˱", "˲", "˳", "˴",
      "˵", "˶", "˷", "˸", "˹", "˺", "˻", "˼", "˽", "˾", "˿", "΄", "΅", "·", "҃", "҄",
      "҅", "҆", "҇", "҈", "҉", "֑", "֒", "֓", "֔", "֕", "֖", "֗", "֘", "֙", "֚", "֛",
      "֜", "֝", "֞", "֟", "֠", "֡", "֢", "֣", "֤", "֥", "֦", "֧", "֨", "֩", "֪", "֫",
      "֬", "֭", "֮", "֯", "ְ", "ֱ", "ֲ", "ֳ", "ִ", "ֵ", "ֶ", "ַ", "ָ", "ֹ", "ֺ", "ֻ",
      "ּ", "ֽ", "ֿ", "ׁ", "ׂ", "ׄ", "ׅ", "ׇ", "״", "ۖ", "ۗ", "ۘ", "ۙ", "ۚ", "ۛ", "ۜ",
      "۝", "۟", "۠", "ۡ", "ۢ", "ۣ", "ۤ", "ۥ", "ۦ", "ۧ", "ۨ", "۪", "۫", "۬", "ۭ", "ަ",
      "ާ", "ި", "ީ", "ު", "ޫ", "ެ", "ޭ", "ޮ", "ޯ", "ް", "߫", "߬", "߭", "߮", "߯", "߰",
      "߱", "߲", "߳", "ߴ", "ߵ", "ߺ", "߽", "࢈", "࢐", "࢑", "࢘", "࢙", "࢚", "࢛", "࢜", "࢝",
      "࢞", "࢟", "ࣉ", "࣊", "࣋", "࣌", "࣍", "࣎", "࣏", "࣐", "࣑", "࣒", "࣓", "ࣔ", "ࣕ", "ࣖ",
      "ࣗ", "ࣘ", "ࣙ", "ࣚ", "ࣛ", "ࣜ", "ࣝ", "ࣞ", "ࣟ", "࣠", "࣡", "࣢", "ࣣ", "ࣤ", "ࣥ", "ࣦ",
      "ࣧ", "ࣨ", "ࣩ", "࣪", "࣫", "࣬", "࣭", "࣮", "࣯", "ࣰ", "ࣱ", "ࣲ", "ࣳ", "ࣴ", "ࣵ", "ࣶ",
      "ࣷ", "ࣸ", "ࣹ", "ࣺ", "ࣻ", "ࣼ", "ࣽ", "ࣾ", "ࣿ", "ঁ", "়", "ু", "ূ", "ৃ", "ৄ", "্",
      "ৢ", "ৣ", "৾", "ઁ", "ં", "઼", "ુ", "ૂ", "ૃ", "ૄ", "ૅ", "ે", "ૈ", "્", "ૢ", "ૣ",
      "ૺ", "ૻ", "ૼ", "૽", "૾", "૿", "ஂ", "ீ", "்", "ಁ", "಼", "ಿ", "ೆ", "ೌ", "್", "ೢ",
      "ೣ", "ඁ", "්", "ි", "ී", "ු", "ූ", "ັ", "ິ", "ີ", "ຶ", "ື", "ຸ", "ູ", "຺", "ົ",
      "ຼ", "ໆ", "່", "້", "໊", "໋", "໌", "ໍ", "ྀ", "ཱྀ", "ྂ", "ྃ", "྄", "྆", "྇", "ྍ",
      "ྎ", "ྏ", "ྐ", "ྑ", "ྒ", "ྒྷ", "ྔ", "ྕ", "ྖ", "ྗ", "ྙ", "ྚ", "ྛ", "ྜ", "ྜྷ", "ྞ",
      "ྟ", "ྠ", "ྡ", "ྡྷ", "ྣ", "ྤ", "ྥ", "ྦ", "ྦྷ", "ྨ", "ྩ", "ྪ", "ྫ", "ྫྷ", "ྭ", "ྮ",
      "ྯ", "ྰ", "ྱ", "ྲ", "ླ", "ྴ", "ྵ", "ྶ", "ྷ", "ྸ", "ྐྵ", "ྺ", "ྻ", "ྼ", "࿆", "ႂ",
      "ႅ", "ႆ", "ႍ", "ႝ", "ჼ", "឴", "឵", "ិ", "ី", "ឹ", "ឺ", "ុ", "ូ", "ួ", "ំ", "៉",
      "៊", "់", "៌", "៍", "៎", "៏", "័", "៑", "្", "៓", "ៗ", "៝", "ᢅ", "ᢆ", "ᢩ", "ᪧ",
      "᪰", "᪱", "᪲", "᪳", "᪴", "᪵", "᪶", "᪷", "᪸", "᪹", "᪺", "᪻", "᪼", "᪽", "᪾", "ᪿ",
      "ᫀ", "᫁", "᫂", "᫃", "᫄", "᫅", "᫆", "᫇", "᫈", "᫉", "᫊", "᫋", "ᫌ", "ᫍ", "ᫎ", "ᮀ",
      "ᮁ", "ᮢ", "ᮣ", "ᮤ", "ᮥ", "ᮨ", "ᮩ", "᮫", "ᮬ", "ᮭ", "᯦", "ᯨ", "ᯩ", "ᯭ", "ᯯ", "ᯰ",
      "ᯱ", "᳐", "᳑", "᳒", "᳔", "᳕", "᳖", "᳗", "᳘", "᳙", "᳚", "᳛", "᳜", "᳝", "᳞", "᳟",
      "᳠", "᳢", "᳣", "᳤", "᳥", "᳦", "᳧", "᳨", "᳭", "᳴", "᳸", "᳹", "ᶛ", "ᶜ", "ᶝ", "ᶞ",
      "ᶟ", "ᶠ", "ᶡ", "ᶢ", "ᶣ", "ᶤ", "ᶥ", "ᶦ", "ᶧ", "ᶨ", "ᶩ", "ᶪ", "ᶫ", "ᶬ", "ᶭ", "ᶮ",
      "ᶯ", "ᶰ", "ᶱ", "ᶲ", "ᶳ", "ᶴ", "ᶵ", "ᶶ", "ᶷ", "ᶸ", "ᶹ", "ᶺ", "ᶻ", "ᶼ", "ᶽ", "ᶾ",
      "ᶿ", "᷀", "᷁", "᷂", "᷃", "᷄", "᷅", "᷆", "᷇", "᷈", "᷉", "᷊", "᷋", "᷌", "᷍", "᷎",
      "᷏", "᷐", "᷑", "᷒", "ᷓ", "ᷔ", "ᷕ", "ᷖ", "ᷗ", "ᷘ", "ᷙ", "ᷚ", "ᷛ", "ᷜ", "ᷝ", "ᷞ",
      "ᷟ", "ᷠ", "ᷡ", "ᷢ", "ᷣ", "ᷤ", "ᷥ", "ᷦ", "ᷧ", "ᷨ", "ᷩ", "ᷪ", "ᷫ", "ᷬ", "ᷭ", "ᷮ",
      "ᷯ", "ᷰ", "ᷱ", "ᷲ", "ᷳ", "ᷴ", "᷵", "᷶", "᷷", "᷸", "᷹", "᷺", "᷻", "᷼", "᷽", "᷾",
      "᷿", "᾽", "᾿", "῀", "῁", "῍", "῎", "῏", "῝", "῞", "῟", "῭", "΅", "`", "´", "῾",
      "ₐ", "ₑ", "ₒ", "ₓ", "ₔ", "ₕ", "ₖ", "ₗ", "ₘ", "ₙ", "ₚ", "ₛ", "ₜ", "⃐", "⃑", "⃒",
      "⃓", "⃔", "⃕", "⃖", "⃗", "⃘", "⃙", "⃚", "⃛", "⃜", "⃝", "⃞", "⃟", "⃠", "⃡", "⃢",
      "⃣", "⃤", "⃥", "⃦", "⃧", "⃨", "⃩", "⃪", "⃫", "⃬", "⃭", "⃮", "⃯", "⃰", "⳯", "⳰",
      "⳱", "ⷠ", "ⷡ", "ⷢ", "ⷣ", "ⷤ", "ⷥ", "ⷦ", "ⷧ", "ⷨ", "ⷩ", "ⷪ", "ⷫ", "ⷬ", "ⷭ", "ⷮ",
      "ⷯ", "ⷰ", "ⷱ", "ⷲ", "ⷳ", "ⷴ", "ⷵ", "ⷶ", "ⷷ", "ⷸ", "ⷹ", "ⷺ", "ⷻ", "ⷼ", "ⷽ", "ⷾ",
      "ⷿ", "゙", "゚", "゛", "゜", "ゝ", "ゞ", "ー", "ヽ", "ヾ", "ꓸ", "ꓹ", "ꓺ", "ꓻ", "ꓼ", "ꓽ",
      "ꚜ", "ꚝ", "ꚞ", "ꚟ", "꛰", "꛱", "ꞈ", "꞉", "꞊", "ꟲ", "ꟳ", "ꟴ", "ꟸ", "ꟹ", "꣄", "ꣅ",
      "꣠", "꣡", "꣢", "꣣", "꣤", "꣥", "꣦", "꣧", "꣨", "꣩", "꣪", "꣫", "꣬", "꣭", "꣮", "꣯",
      "꣰", "꣱", "ꣿ", "ꦀ", "ꦁ", "ꦂ", "꦳", "ꦶ", "ꦷ", "ꦸ", "ꦹ", "ꦼ", "ꦽ", "ꧏ", "ꧥ", "ꧦ",
      "ꪰ", "ꪲ", "ꪳ", "ꪴ", "ꪷ", "ꪸ", "ꪾ", "꪿", "꫁", "ꫝ", "ꫬ", "ꫭ", "ꫳ", "ꫴ", "꫶", "ꯥ",
      "ꯨ", "꯭", "﮲", "﮳", "﮴", "﮵", "﮶", "﮷", "﮸", "﮹", "﮺", "﮻", "﮼", "﮽", "﮾", "﮿",
      "﯀", "﯁", "﯂", "﻿", "ﾞ", "ﾟ", "￣", "￹", "￺", "￻" }

\* the nearest position at or before i whose character is not case-ignorable, or 0
RECURSIVE LastNotIgnorable(_, _)
LastNotIgnorable(s, i) ==
    IF i >= 1 /\ s[i] \in CaseIgnorable THEN LastNotIgnorable(s, i - 1) ELSE i

\* the nearest position at or after i whose character is not case-ignorable, or Len(s) + 1
RECURSIVE NextNotIgnorable(_, _)
NextNotIgnorable(s, i) ==
    IF i <= Len(s) /\ s[i] \in CaseIgnorable THEN NextNotIgnorable(s, i + 1) ELSE i

\* a capital sigma becomes the final small sigma when a cased character comes
\* before it and none after it, case-ignorable characters apart
FinalSigma(s, i) ==
    LET j == LastNotIgnorable(s, i - 1)
        k == NextNotIgnorable(s, i + 1)
    IN /\ j >= 1 /\ s[j] \in Cased
       /\ (k > Len(s) \/ s[k] \notin Cased)

\* str.lower()
Lower(s) ==
    [i \in 1..Len(s) |->
       IF s[i] = "Σ" THEN (IF FinalSigma(s, i) THEN "ς" ELSE "σ")
       ELSE IF s[i] \in DOMAIN UpperToLower THEN UpperToLower[s[i]] ELSE s[i]]

\* p occurs in s at position i
OccursAt(s, i, p) ==
    /\ i >= 1
    /\ i + Len(p) - 1 <= Len(s)
    /\ SubSeq(s, i, i + Len(p) - 1) = p

\* the "p in s" test of Python on two str values
Contains(s, p) == \E i \in 1..(Len(s) + 1) : OccursAt(s, i, p)

\* sep.join(parts)
RECURSIVE Join(_, _)
Join(parts, sep) ==
    IF parts = <<>> THEN <<>>
    ELSE IF Len(parts) = 1 THEN parts[1]
    ELSE parts[1] \o sep \o Join(Tail(parts), sep)

\* "".join(parts)
RECURSIVE Concat(_)
Concat(parts) == IF parts = <<>> THEN <<>> ELSE parts[1] \o Concat(Tail(parts))

\* DecimalDigits[v + 1]: the characters \d matches that int() reads as v
DecimalDigits ==
    << { "0", "۰", "߀", "০", "૦", "௦", "೦", "෦", "໐", "႐", "០", "᧐", "᪀", "᪐", "᮰", "꣐", "꧐",
         "꧰", "꯰" },
       { "1", "۱", "߁", "১", "૧", "௧", "೧", "෧", "໑", "႑", "១", "᧑", "᪁", "᪑", "᮱", "꣑", "꧑",
         "꧱", "꯱" },
       { "2", "۲", "߂", "২", "૨", "௨", "೨", "෨", "໒", "႒", "២", "᧒", "᪂", "᪒", "᮲", "꣒", "꧒",
         "꧲", "꯲" },
       { "3", "۳", "߃", "৩", "૩", "௩", "೩", "෩", "໓", "႓", "៣", "᧓", "᪃", "᪓", "᮳", "꣓", "꧓",
         "꧳", "꯳" },
       { "4", "۴", "߄", "৪", "૪", "௪", "೪", "෪", "໔", "႔", "៤", "᧔", "᪄", "᪔", "᮴", "꣔", "꧔",
         "꧴", "꯴" },
       { "5", "۵", "߅", "৫", "૫", "௫", "೫", "෫", "໕", "႕", "៥", "᧕", "᪅", "᪕", "᮵", "꣕", "꧕",
         "꧵", "꯵" },
       { "6", "۶", "߆", "৬", "૬", "௬", "೬", "෬", "໖", "႖", "៦", "᧖", "᪆", "᪖", "᮶", "꣖", "꧖",
         "꧶", "꯶" },
       { "7", "۷", "߇", "৭", "૭", "௭", "೭", "෭", "໗", "႗", "៧", "᧗", "᪇", "᪗", "᮷", "꣗", "꧗",
         "꧷", "꯷" },
       { "8", "۸", "߈", "৮", "૮", "௮", "೮", "෮", "໘", "႘", "៨", "᧘", "᪈", "᪘", "᮸", "꣘", "꧘",
         "꧸", "꯸" },
       { "9", "۹", "߉", "৯", "૯", "௯", "೯", "෯", "໙", "႙", "៩", "᧙", "᪉", "᪙", "᮹", "꣙", "꧙",
         "꧹", "꯹" } >>

DigitValue ==
    [c \in UNION {DecimalDigits[v + 1] : v \in 0..9} |->
       CHOOSE v \in 0..9 : c \in DecimalDigits[v + 1]]

IsDigit(c) == c \in DOMAIN DigitValue

\* the characters \s matches and str.strip() removes
WhiteSpace ==
    { "\t", "\n", "", "\f", "\r", "", "", "", "", " ", "", " ", " " }

IsSpace(c) == c \in WhiteSpace

\* int(digits)
RECURSIVE ToInt(_)
ToInt(digits) ==
    IF digits = <<>> THEN 0
    ELSE 10 * ToInt(SubSeq(digits, 1, Len(digits) - 1)) + DigitValue[digits[Len(digits)]]

(***************************************************************************)
(* The regular expressions of _extract_requirements.  Every quantifier of  *)
(* the three patterns is greedy and is followed by an item that cannot     *)
(* start with a character the quantifier accepts, so a match at a start    *)
(* position, if any, is the greedy one: backtracking finds no other.       *)
(***************************************************************************)
\* first position at or after i that holds no digit: the end of \d*
RECURSIVE AfterDigits(_, _)
AfterDigits(s, i) ==
    IF i <= Len(s) /\ IsDigit(s[i]) THEN AfterDigits(s, i + 1) ELSE i

\* the end of \s*
RECURSIVE AfterSpaces(_, _)
AfterSpaces(s, i) ==
    IF i <= Len(s) /\ IsSpace(s[i]) THEN AfterSpaces(s, i + 1) ELSE i

\* the end of an optional literal character
AfterOptional(s, i, c) == IF i <= Len(s) /\ s[i] = c THEN i + 1 ELSE i

w_year == <<"y","e","a","r">>
w_exp == <<"e","x","p">>
w_experience == <<"e","x","p","e","r","i","e","n","c","e">>
w_with == <<"w","i","t","h">>
w_of == <<"o","f">>
w_available == <<"a","v","a","i","l","a","b","l","e">>

\* (\d+)\+?\s*years?\s*(experience|exp) matched at position i: group 1, or None
Pattern1At(s, i) ==
    LET d == AfterDigits(s, i)
        y == AfterSpaces(s, AfterOptional(s, d, "+"))
        e == AfterSpaces(s, AfterOptional(s, y + 4, "s"))
    IN IF /\ d > i
          /\ OccursAt(s, y, w_year)
          /\ (OccursAt(s, e, w_experience) \/ OccursAt(s, e, w_exp))
       THEN Some(SubSeq(s, i, d - 1)) ELSE None

\* with\s*(\d+)\+?\s*years? matched at position i: group 1, or None
Pattern2At(s, i) ==
    LET b == AfterSpaces(s, i + 4)
        d == AfterDigits(s, b)
        y == AfterSpaces(s, AfterOptional(s, d, "+"))
    IN IF /\ OccursAt(s, i, w_with)
          /\ d > b
          /\ OccursAt(s, y, w_year)
       THEN Some(SubSeq(s, b, d - 1)) ELSE None

\* (\d+)\s*years?\s*of\s*experience matched at position i: group 1, or None
Pattern3At(s, i) ==
    LET d == AfterDigits(s, i)
        y == AfterSpaces(s, d)
        o == AfterSpaces(s, AfterOptional(s, y + 4, "s"))
        e == AfterSpaces(s, o + 2)
    IN IF /\ d > i
          /\ OccursAt(s, y, w_year)
          /\ OccursAt(s, o, w_of)
          /\ OccursAt(s, e, w_experience)
       THEN Some(SubSeq(s, i, d - 1)) ELSE None

PatternAt(n, s, i) ==
    CASE n = 1 -> Pattern1At(s, i)
      [] n = 2 -> Pattern2At(s, i)
      [] n = 3 -> Pattern3At(s, i)

\* re.search(exp_patterns[n], s): group 1 of the leftmost match, or None
ReSearch(n, s) ==
    LET starts == {i \in 1..Len(s) : ~IsNone(PatternAt(n, s, i))}
    IN IF starts = {} THEN None
       ELSE PatternAt(n, s, CHOOSE i \in starts : \A j \in starts : i <= j)

common_skills ==
    << <<"p","y","t","h","o","n">>,
       <<"j","a","v","a","s","c","r","i","p","t">>,
       <<"j","a","v","a">>,
       <<"r","e","a","c","t">>,
       <<"a","n","g","u","l","a","r">>,
       <<"v","u","e">>,
       <<"n","o","d","e">>,
       <<"e","x","p","r","e","s","s">>,
       <<"d","j","a","n","g","o">>,
       <<"f","l","a","s","k">>,
       <<"f","a","s","t","a","p","i">>,
       <<"a","w","s">>,
       <<"a","z","u","r","e">>,
       <<"g","c","p">>,
       <<"d","o","c","k","e","r">>,
       <<"k","u","b","e","r","n","e","t","e","s">>,
       <<"m","a","c","h","i","n","e"," ","l","e","a","r","n","i","n","g">>,
       <<"m","l">>,
       <<"a","i">>,
       <<"d","a","t","a"," ","s","c","i","e","n","c","e">>,
       <<"s","q","l">>,
       <<"p","o","s","t","g","r","e","s","q","l">>,
       <<"m","o","n","g","o","d","b">>,
       <<"r","e","d","i","s">>,
       <<"h","t","m","l">>,
       <<"c","s","s">>,
       <<"t","y","p","e","s","c","r","i","p","t">>,
       <<"g","o">>,
       <<"r","u","s","t">>,
       <<"t","e","n","s","o","r","f","l","o","w">>,
       <<"p","y","t","o","r","c","h">>,
       <<"s","c","i","k","i","t","-","l","e","a","r","n">> >>

\* [x for x in seq if keep(x)], for the skills loop
RECURSIVE SkillsIn(_, _)
SkillsIn(skills, query_lower) ==
    IF skills = <<>> THEN <<>>
    ELSE (IF Contains(query_lower, skills[1]) THEN <<skills[1]>> ELSE <<>>)
         \o SkillsIn(Tail(skills), query_lower)

\* the loop over exp_patterns: the first pattern that matches decides
ExtractExperience(query_lower) ==
    LET m1 == ReSearch(1, query_lower)
        m2 == ReSearch(2, query_lower)
        m3 == ReSearch(3, query_lower)
    IN IF ~IsNone(m1) THEN Some(ToInt(Get(m1)))
       ELSE IF ~IsNone(m2) THEN Some(ToInt(Get(m2)))
       ELSE IF ~IsNone(m3) THEN Some(ToInt(Get(m3)))
       ELSE None

\* RAGSystem._extract_requirements
ExtractRequirements(query) ==
    LET query_lower == Lower(query)
    IN [skills       |-> SkillsIn(common_skills, query_lower),
        experience   |-> ExtractExperience(query_lower),
        projects     |-> <<>>,
        availability |-> IF Contains(query_lower, w_available)
                         THEN Some("available") ELSE None,
        department   |-> None]

(***************************************************************************)
(* Employees (models.Employee).  The employees a data file can hold.       *)
(***************************************************************************)
sep_comma == <<",", " ">>
sep_space == <<" ">>

AvailabilityStatus == {"available", "busy", "on_leave"}

\* the str value of an AvailabilityStatus member
AvailabilityValue(a) ==
    CASE a = "available" -> w_available
      [] a = "busy" -> <<"b","u","s","y">>
      [] a = "on_leave" -> <<"o","n","_","l","e","a","v","e">>

s_python == <<"P","y","t","h","o","n">>
s_shop == <<"S","h","o","p">>

Roster ==
    << [id |-> 1, name |-> <<"A","n","n">>, skills |-> <<s_python>>,
        experience_years |-> 5, projects |-> <<s_shop>>,
        availability |-> "available", department |-> Some(<<"E","n","g">>),
        location |-> Some(<<"O","s","l","o">>), specializations |-> None],
       [id |-> 2, name |-> <<"B","o">>, skills |-> << <<"J","a","v","a">> >>,
        experience_years |-> 2, projects |-> << <<"B","a","n","k">> >>,
        availability |-> "busy", department |-> None,
        location |-> None, specializations |-> Some(<< <<"M","L">> >>)],
       [id |-> 3, name |-> <<"C","y">>, skills |-> <<s_python, <<"A","W","S">> >>,
        experience_years |-> 7,
        projects |-> << <<"M","a","p","s">>, s_shop, <<"P","a","y">> >>,
        availability |-> "available", department |-> Some(<<"E","n","g">>),
        location |-> Some(<<"R","o","m","e">>), specializations |-> Some(<<>>)],
       [id |-> 4, name |-> <<"A","i","d","a">>, skills |-> << <<"G","o">> >>,
        experience_years |-> 3, projects |-> <<>>,
        availability |-> "on_leave", department |-> Some(<<"O","p","s">>),
        location |-> Some(<<"O","s","l","o">>), specializations |-> None] >>

\* the elements of seq at the positions in keep, in order
RECURSIVE Pick(_, _, _)
Pick(seq, keep, i) ==
    IF i > Len(seq) THEN <<>>
    ELSE (IF i \in keep THEN <<seq[i]>> ELSE <<>>) \o Pick(seq, keep, i + 1)

\* the employee lists a data file can hold: the sublists of the roster
EmployeeLists ==
    {Pick(Roster, keep, 1) :
        keep \in {k \in SUBSET (1..Len(Roster)) : Cardinality(k) <= MaxEmployees}}
    \cup {<<Roster[1], Roster[1]>>, <<Roster[3], Roster[2], Roster[3]>>}

\* x or []
OrEmpty(o) == IF IsNone(o) THEN <<>> ELSE Get(o)

\* an optional str or list is falsy: None or empty
Falsy(o) == IF IsNone(o) THEN TRUE ELSE Get(o) = <<>>

\* an optional int is falsy: None or 0
FalsyInt(o) == IF IsNone(o) THEN TRUE ELSE Get(o) = 0

(***************************************************************************)
(* RAGSystem._matches_requirements                                         *)
(***************************************************************************)
\* one requested skill against one employee (the condition of the inner if)
SkillMatches(req_skill, employee) ==
    LET emp_skills_lower == [i \in 1..Len(employee.skills) |-> Lower(employee.skills[i])]
        emp_text_lower ==
            Lower(Join(employee.skills, sep_space) \o sep_space
                  \o Join(employee.projects, sep_space) \o sep_space \o employee.name)
    IN \/ \E i \in 1..Len(emp_skills_lower) : emp_skills_lower[i] = req_skill
       \/ Contains(emp_text_lower, req_skill)
       \/ \E i \in 1..Len(employee.skills) : Contains(Lower(employee.skills[i]), req_skill)

\* MatchesRequirements without the availability check
MatchesRequirementsNoAvailability(employee, requirements) ==
    IF /\ ~FalsyInt(requirements.experience)
       /\ employee.experience_years < Get(requirements.experience)
    THEN FALSE
    ELSE IF /\ requirements.skills # <<>>
            /\ ~\E k \in 1..Len(requirements.skills) :
                   SkillMatches(requirements.skills[k], employee)
    THEN FALSE
    ELSE TRUE

\* MatchesRequirements asking for every requested skill instead of any
MatchesRequirementsAllSkills(employee, requirements) ==
    IF /\ ~FalsyInt(requirements.experience)
       /\ employee.experience_years < Get(requirements.experience)
    THEN FALSE
    ELSE IF /\ ~IsNone(requirements.availability)
            /\ employee.availability # Get(requirements.availability)
    THEN FALSE
    ELSE IF /\ requirements.skills # <<>>
            /\ ~\A k \in 1..Len(requirements.skills) :
                   SkillMatches(requirements.skills[k], employee)
    THEN FALSE
    ELSE TRUE

MatchesRequirements(employee, requirements) ==
    IF /\ ~FalsyInt(requirements.experience)
       /\ employee.experience_years < Get(requirements.experience)
    THEN FALSE
    ELSE IF /\ ~IsNone(requirements.availability)
            /\ employee.availability # Get(requirements.availability)
    THEN FALSE
    ELSE IF /\ requirements.skills # <<>>
            /\ ~\E k \in 1..Len(requirements.skills) :
                   SkillMatches(requirements.skills[k], employee)
    THEN FALSE
    ELSE TRUE

(***************************************************************************)
(* Building the index: RAGSystem.__init__ and _initialize_embeddings.      *)
(***************************************************************************)
\* the text of one employee in _build_sentence_embeddings: the values the
\* f-string interpolates, in the order of its lines
SentenceText(emp) ==
    << [Name |-> emp.name],
       [Skills |-> Join(emp.skills, sep_comma)],
       [Experience |-> emp.experience_years],
       [Projects |-> Join(emp.projects, sep_comma)],
       [Department |-> emp.department],
       [Specializations |-> Join(OrEmpty(emp.specializations), sep_comma)],
       [Availability |-> emp.availability],
       [Location |-> emp.location] >>

\* str(n)
RECURSIVE IntToStr(_)
IntToStr(n) ==
    LET d == <<"0","1","2","3","4","5","6","7","8","9">>[(n % 10) + 1]
    IN IF n < 0 THEN <<"-">> \o IntToStr(0 - n)
       ELSE IF n < 10 THEN <<d>> ELSE IntToStr(n \div 10) \o <<d>>

\* the text of one employee in _build_tfidf_embeddings
TfidfText(emp) ==
    LET text_parts ==
            emp.skills \o emp.projects \o <<emp.name>> \o <<OrEmpty(emp.department)>>
            \o OrEmpty(emp.specializations) \o <<AvailabilityValue(emp.availability)>>
            \o <<OrEmpty(emp.location)>>
            \o <<IntToStr(emp.experience_years) \o sep_space \o w_year \o <<"s">>
                 \o sep_space \o w_experience>>
    IN Lower(Join(text_parts, sep_space))

\* _build_sentence_embeddings on a loaded model: encode() of an empty list
\* returns an empty array
BuildSentenceEmbeddings(employees) ==
    [employees |-> employees,
     employee_texts |-> [i \in 1..Len(employees) |-> SentenceText(employees[i])],
     employee_embeddings |-> [kind |-> "dense", rows |-> Len(employees)],
     vectorizer |-> None,
     model |-> Some("all-MiniLM-L6-v2"),
     use_sentence_transformers |-> TRUE]

\* _build_tfidf_embeddings on a non-empty list
BuildTfidfEmbeddings(employees) ==
    [employees |-> employees,
     employee_texts |-> [i \in 1..Len(employees) |-> TfidfText(employees[i])],
     employee_embeddings |-> [kind |-> "tfidf", rows |-> Len(employees)],
     vectorizer |-> Some("TfidfVectorizer"),
     model |-> None,
     use_sentence_transformers |-> FALSE]

StStatus == {"ok", "import_error", "load_error"}

\* RAGSystem(employees_data): the object, or None when the constructor raises.
\* An ImportError of sentence_transformers selects TF-IDF, whose fit_transform
\* raises ValueError (empty vocabulary) on no documents; any other exception of
\* the model load is not caught by _initialize_embeddings.
RAGSystemNew(employees_data, status) ==
    CASE status = "ok" -> Some(BuildSentenceEmbeddings(employees_data))
      [] status = "import_error" ->
            IF employees_data = <<>> THEN None
            ELSE Some(BuildTfidfEmbeddings(employees_data))
      [] status = "load_error" -> None

(***************************************************************************)
(* The queries of the POST /chat requests of the model.                    *)
(***************************************************************************)
q_hello == <<"h","e","l","l","o">>
q_python == <<"P","y","t","h","o","n">>
q_java9 == <<"j","a","v","a"," ","9"," ","y","e","a","r","s"," ","e","x","p">>
q_three == <<"3"," ","y","e","a","r","s"," ","e","x","p","e","r","i","e","n","c","e",
             ","," ","a","v","a","i","l","a","b","l","e">>
q_find == <<"F","i","n","d"," ","P","y","t","h","o","n"," ","d","e","v","e","l","o","p",
            "e","r","s"," ","w","i","t","h"," ","3","+"," ","y","e","a","r","s"," ","e",
            "x","p","e","r","i","e","n","c","e"," ","w","h","o"," ","a","r","e"," ","a",
            "v","a","i","l","a","b","l","e">>

Queries == {<<>>, q_hello, q_python, q_java9, q_three, q_find}

\* self._extract_requirements(query) for these queries, evaluated once
Extracted == [query \in Queries |-> ExtractRequirements(query)]

(***************************************************************************)
(* Ranking.  The similarities of a query to the employees come from the    *)
(* fitted vectorizer or the loaded model and cosine_similarity: they are   *)
(* an input of the search, one score per employee.  np.argsort uses an     *)
(* unstable sort: where it puts equal scores depends on the build, so the  *)
(* array it returns is an input too, any of Argsorts(similarities).        *)
(***************************************************************************)
Scores == 0..MaxScore

\* the orders of n indices, for every n the model meets
TieOrders ==
    [n \in 0..MaxEmployees |->
        {p \in [1..n -> 1..n] : \A i, j \in 1..n : p[i] = p[j] => i = j}]

\* the arrays np.argsort(similarities) can return: the indices by ascending
\* score, equal scores in any order
Argsorts(similarities) ==
    {p \in TieOrders[Len(similarities)] :
        \A k \in 1..(Len(similarities) - 1) :
            similarities[p[k]] <= similarities[p[k + 1]]}

\* Ranking without the reversal
RankingAscending(argsort) == argsort

\* np.argsort(similarities)[::-1]
Ranking(argsort) == Reverse(argsort)

\* TopIndices without the cut
TopIndicesAll(argsort, max_results) == Ranking(argsort)

\* np.argsort(similarities)[::-1][:max_results * 2]
TopIndices(argsort, max_results) ==
    SliceTo(Ranking(argsort), max_results * 2)

\* FilterLoop without the break
RECURSIVE FilterLoopNoBreak(_, _, _, _, _, _)
FilterLoopNoBreak(self, similarities, indices, requirements, max_results, found) ==
    IF indices = <<>> THEN found
    ELSE LET idx == indices[1]
             emp == self.employees[idx]
             appended == [employees |-> Append(found.employees, emp),
                          scores |-> Append(found.scores, similarities[idx]),
                          indices |-> Append(found.indices, idx)]
         IN FilterLoopNoBreak(self, similarities, Tail(indices), requirements, max_results,
                              IF MatchesRequirements(emp, requirements)
                              THEN appended ELSE found)

\* FilterLoop with insert(0, ...) for append
RECURSIVE FilterLoopPrepending(_, _, _, _, _, _)
FilterLoopPrepending(self, similarities, indices, requirements, max_results, found) ==
    IF indices = <<>> THEN found
    ELSE LET idx == indices[1]
             emp == self.employees[idx]
             inserted == [employees |-> <<emp>> \o found.employees,
                          scores |-> <<similarities[idx]>> \o found.scores,
                          indices |-> <<idx>> \o found.indices]
         IN IF MatchesRequirements(emp, requirements)
            THEN IF Len(inserted.employees) >= max_results
                 THEN inserted
                 ELSE FilterLoopPrepending(self, similarities, Tail(indices), requirements,
                                           max_results, inserted)
            ELSE FilterLoopPrepending(self, similarities, Tail(indices), requirements,
                                      max_results, found)

\* the filtering loop of both search methods, from the candidates still to
\* examine and the results found so far
RECURSIVE FilterLoop(_, _, _, _, _, _)
FilterLoop(self, similarities, indices, requirements, max_results, found) ==
    IF indices = <<>> THEN found
    ELSE LET idx == indices[1]
             emp == self.employees[idx]
             score == similarities[idx]
             appended == [employees |-> Append(found.employees, emp),
                          scores |-> Append(found.scores, score),
                          indices |-> Append(found.indices, idx)]
         IN IF MatchesRequirements(emp, requirements)
            THEN IF Len(appended.employees) >= max_results
                 THEN appended
                 ELSE FilterLoop(self, similarities, Tail(indices), requirements,
                                 max_results, appended)
            ELSE FilterLoop(self, similarities, Tail(indices), requirements,
                            max_results, found)

\* filtered_results and filtered_scores before the loop.  With the two lists
\* the model keeps the idx of every employee it puts in them: the code's
\* lists hold the objects self.employees[idx] themselves, which equal records
\* of a data file do not tell apart.
NoResults == [employees |-> <<>>, scores |-> <<>>, indices |-> <<>>]

\* RAGSystem._search_with_sentence_transformers, max_results an int
SearchWithSentenceTransformers(self, query, max_results, similarities, argsort) ==
    LET top_indices == TopIndices(argsort, max_results)
        requirements == Extracted[query]
    IN FilterLoop(self, similarities, top_indices, requirements, max_results, NoResults)

\* TopSimilarity over all of top_indices
TopSimilarityAll(self, similarities, top_indices, max_results) ==
    [employees |-> [k \in 1..Len(top_indices) |-> self.employees[top_indices[k]]],
     scores |-> [k \in 1..Len(top_indices) |-> similarities[top_indices[k]]],
     indices |-> top_indices]

\* TopSimilarity leaving out the candidates of similarity 0
TopSimilarityPositive(self, similarities, top_indices, max_results) ==
    LET first == SliceTo(top_indices, max_results)
        kept == Pick(first, {k \in 1..Len(first) : similarities[first[k]] > 0}, 1)
    IN [employees |-> [k \in 1..Len(kept) |-> self.employees[kept[k]]],
        scores |-> [k \in 1..Len(kept) |-> similarities[kept[k]]],
        indices |-> kept]

\* the fallback of _search_with_tfidf: the first max_results of top_indices
TopSimilarity(self, similarities, top_indices, max_results) ==
    LET first == SliceTo(top_indices, max_results)
    IN [employees |-> [k \in 1..Len(first) |-> self.employees[first[k]]],
        scores |-> [k \in 1..Len(first) |-> similarities[first[k]]],
        indices |-> first]

\* SearchWithTfidf without the fallback
SearchWithTfidfNoFallback(self, query, max_results, similarities, argsort) ==
    SearchWithSentenceTransformers(self, query, max_results, similarities, argsort)

\* RAGSystem._search_with_tfidf, max_results an int
SearchWithTfidf(self, query, max_results, similarities, argsort) ==
    LET top_indices == TopIndices(argsort, max_results)
        requirements == Extracted[query]
        filtered == FilterLoop(self, similarities, top_indices, requirements,
                               max_results, NoResults)
    IN IF filtered.employees = <<>>
       THEN TopSimilarity(self, similarities, top_indices, max_results)
       ELSE filtered

Raise(exception) == [raised |-> exception]
Raised(result) == "raised" \in DOMAIN result

\* SearchEmployees without the dispatch on the strategy flag
SearchEmployeesTfidfOnly(self, query, max_results, similarities, argsort) ==
    IF self.use_sentence_transformers /\ self.employees = <<>>
    THEN Raise("ValueError")
    ELSE IF IsNone(max_results) THEN Raise("TypeError")
    ELSE SearchWithTfidf(self, query, Get(max_results), similarities, argsort)

\* RAGSystem.search_employees.  cosine_similarity raises ValueError on the
\* empty array that encode() makes of no employees; max_results * 2 raises
\* TypeError when max_results is None.
SearchEmployees(self, query, max_results, similarities, argsort) ==
    IF self.use_sentence_transformers /\ self.employees = <<>>
    THEN Raise("ValueError")
    ELSE IF IsNone(max_results) THEN Raise("TypeError")
    ELSE IF self.use_sentence_transformers
    THEN SearchWithSentenceTransformers(self, query, Get(max_results), similarities, argsort)
    ELSE SearchWithTfidf(self, query, Get(max_results), similarities, argsort)

(***************************************************************************)
(* RAGSystem._format_response and generate_response.  A text is the        *)
(* sequence of its sentences, each the values its f-string interpolates.   *)
(***************************************************************************)
Closing == <<[sentence |-> "Would you like me to provide more details"]>>

FormatOne(emp) ==
    << [sentence |-> "I found an excellent candidate"],
       [name |-> emp.name],
       [experience_years |-> emp.experience_years,
        projects |-> Join(SliceTo(emp.projects, 2), sep_comma)],
       [skills |-> Join(SliceTo(emp.skills, 5), sep_comma)],
       [availability |-> emp.availability, location |-> emp.location] >>
    \o (IF Falsy(emp.specializations) THEN <<>>
        ELSE <<[specializations |-> Join(Get(emp.specializations), sep_comma)]>>)

\* the block of the i-th of the first three employees
FormatBlock(i, emp) ==
    << [i |-> i, name |-> emp.name, experience_years |-> emp.experience_years],
       [skills |-> Join(SliceTo(emp.skills, 4), sep_comma)],
       [projects |-> Join(SliceTo(emp.projects, 2), sep_comma)],
       [availability |-> emp.availability, location |-> emp.location] >>
    \o (IF Falsy(emp.specializations) THEN <<>>
        ELSE <<[specializations |->
                  Join(SliceTo(Get(emp.specializations), 3), sep_comma)]>>)

RECURSIVE FormatBlocks(_, _)
FormatBlocks(i, employees) ==
    IF employees = <<>> THEN <<>>
    ELSE FormatBlock(i, employees[1]) \o FormatBlocks(i + 1, Tail(employees))

FormatResponse(query, employees, scores) ==
    (IF Len(employees) = 1 THEN FormatOne(employees[1])
     ELSE <<[sentence |-> "Based on your requirements, I found", count |-> Len(employees)]>>
          \o FormatBlocks(1, SliceTo(employees, 3))
          \o (IF Len(employees) > 3 THEN <<[more |-> Len(employees) - 3]>> ELSE <<>>))
    \o Closing

Apology == <<[sentence |-> "I couldn't find any employees matching your specific requirements"]>>

\* a float quotient, kept exact
Quotient(a, b) == [num |-> a, den |-> b]
Zero == Quotient(0, 1)

\* GenerateResponse without the branch for no employees: the mean of no
\* scores raises
GenerateResponseNoEmptyBranch(query, found) ==
    IF Raised(found) THEN found
    ELSE IF found.scores = <<>> THEN Raise("ZeroDivisionError")
    ELSE [response |-> FormatResponse(query, found.employees, found.scores),
          matched_employees |-> found.employees,
          confidence_score |-> Quotient(SumSeq(found.scores), Len(found.scores))]

\* RAGSystem.generate_response, from what its call of search_employees did
\* (found: the lists returned, or the exception raised): a ChatResponse, or
\* the exception
GenerateResponse(query, found) ==
    IF Raised(found) THEN found
    ELSE IF found.employees = <<>>
    THEN [response |-> Apology, matched_employees |-> <<>>, confidence_score |-> Zero]
    ELSE [response |-> FormatResponse(query, found.employees, found.scores),
          matched_employees |-> found.employees,
          confidence_score |-> IF found.scores = <<>> THEN Zero
                               ELSE Quotient(SumSeq(found.scores), Len(found.scores))]

(***************************************************************************)
(* The HTTP handlers of main.py.                                           *)
(***************************************************************************)
Ok(body) == [status |-> 200, body |-> body]
HTTPException(status_code, detail) == [status |-> status_code, detail |-> detail]
NotInitialized == HTTPException(500, "RAG system not initialized")

\* the module-level try/except: the value of the global rag_system.  Without
\* the data file load_employee_data imports SAMPLE_EMPLOYEES from
\* backend.rag_system, which defines no such name: ImportError.
InitializeRagSystem ==
    IF IsNone(data_file) THEN None
    ELSE RAGSystemNew(Get(data_file), st_status)

\* @app.get("/")
Root ==
    Ok([message |-> "HR Resource Query Chatbot API is running!", status |-> "healthy",
        employees_loaded |-> IF IsNone(rag_system) THEN 0
                             ELSE Len(Get(rag_system).employees)])

\* @app.post("/chat"), from what the search_employees call inside
\* generate_response did (None: the call was not reached)
ChatQuery(query, found) ==
    IF IsNone(rag_system) THEN NotInitialized
    ELSE LET result == GenerateResponse(query, Get(found))
         IN IF Raised(result) THEN HTTPException(500, "Error processing query")
            ELSE Ok(result)

\* GetAllEmployees answering with no employees when there is no system
GetAllEmployeesUnguarded ==
    Ok(IF IsNone(rag_system) THEN <<>> ELSE Get(rag_system).employees)

\* @app.get("/employees")
GetAllEmployees ==
    IF IsNone(rag_system) THEN NotInitialized ELSE Ok(Get(rag_system).employees)

\* s.strip()
RECURSIVE Strip(_)
Strip(s) ==
    IF s # <<>> /\ IsSpace(s[1]) THEN Strip(Tail(s))
    ELSE IF s # <<>> /\ IsSpace(s[Len(s)]) THEN Strip(SubSeq(s, 1, Len(s) - 1))
    ELSE s

\* s.split(',')
RECURSIVE Split(_, _)
Split(s, piece) ==
    IF s = <<>> THEN <<piece>>
    ELSE IF s[1] = "," THEN <<piece>> \o Split(Tail(s), <<>>)
    ELSE Split(Tail(s), Append(piece, s[1]))

\* @app.get("/employees/search")
SearchEmployeesEndpoint(skills, min_experience, max_experience, availability, department, max_results) ==
    IF IsNone(rag_system) THEN NotInitialized
    ELSE LET parts == IF Falsy(skills) THEN <<>> ELSE Split(Get(skills), <<>>)
             skills_list == [i \in 1..Len(parts) |-> Strip(parts[i])]
             Passes(emp) ==
                 /\ skills_list # <<>> =>
                       \E k \in 1..Len(skills_list), i \in 1..Len(emp.skills) :
                           Lower(skills_list[k]) = Lower(emp.skills[i])
                 /\ ~(~FalsyInt(min_experience) /\ emp.experience_years < Get(min_experience))
                 /\ ~(~FalsyInt(max_experience) /\ emp.experience_years > Get(max_experience))
                 /\ ~(~IsNone(availability) /\ emp.availability # Get(availability))
                 /\ ~(/\ ~Falsy(department)
                      /\ ~Falsy(emp.department)
                      /\ ~Contains(Lower(Get(emp.department)), Lower(Get(department))))
             employees == Get(rag_system).employees
             filtered_employees ==
                 Pick(employees, {i \in 1..Len(employees) : Passes(employees[i])}, 1)
         IN Ok(IF FalsyInt(max_results) THEN filtered_employees
               ELSE SliceTo(filtered_employees, Get(max_results)))

\* @app.get("/employees/{employee_id}")
GetEmployee(employee_id) ==
    IF IsNone(rag_system) THEN NotInitialized
    ELSE LET employees == Get(rag_system).employees
             hits == {i \in 1..Len(employees) : employees[i].id = employee_id}
         IN IF hits = {} THEN HTTPException(404, "Employee not found")
            ELSE Ok(employees[CHOOSE i \in hits : \A j \in hits : i <= j])

\* the keys of a dict counting the items of seq, in insertion order
RECURSIVE Keys(_, _)
Keys(seq, seen) ==
    IF seq = <<>> THEN seen
    ELSE Keys(Tail(seq), IF \E k \in 1..Len(seen) : seen[k] = seq[1]
                         THEN seen ELSE Append(seen, seq[1]))

Count(seq, x) == Cardinality({i \in 1..Len(seq) : seq[i] = x})

\* sorted(items, key=lambda x: x[1], reverse=True): stable, larger counts first
SortedByCount(items) ==
    LET n == Len(items)
        Before(j, i) == items[j][2] > items[i][2] \/ (items[j][2] = items[i][2] /\ j < i)
    IN [k \in 1..n |-> items[CHOOSE i \in 1..n :
                               Cardinality({j \in 1..n : Before(j, i)}) = k - 1]]

\* floor(log2(p / 20)) for p >= 1
RECURSIVE Log2OfTwentieths(_)
Log2OfTwentieths(p) ==
    IF p >= 40 THEN Log2OfTwentieths(p \div 2) + 1
    ELSE IF p >= 20 THEN 0
    ELSE Log2OfTwentieths(2 * p) - 1

\* the sign of float(p / 20) - p / 20 for p >= 1: the float keeps 53 bits of
\* p / 20 * 2^e, where e = 52 - floor(log2(p / 20)), rounded to nearest; the
\* part it drops is (p * 2^e mod 20) / 20, and 2^e mod 20 is 16, 12, 4, 8 for
\* e mod 4 = 0, 1, 2, 3 (e >= 2)
FloatError(p) ==
    LET e == 52 - Log2OfTwentieths(p)
        dropped == ((p % 20) * <<16, 12, 4, 8>>[(e % 4) + 1]) % 20
    IN IF dropped = 0 THEN 0 ELSE IF dropped < 10 THEN 0 - 1 ELSE 1

\* round(a / b, 1) in tenths.  a / b is the float nearest the quotient and
\* round() gives the tenth nearest that float, the even one when the float is
\* half-way.  Off a half-way quotient the float is on the quotient's side
\* (|a / b - t| >= 1 / (20 * b) for a half-way t, far more than the float's
\* error); on one, (2 * q + 1) / 20, the side is that of the float's error.
RoundTenths(a, b) ==
    LET q == (10 * a) \div b
        r == (10 * a) % b
        p == IF 2 * q + 1 >= 0 THEN 2 * q + 1 ELSE 0 - (2 * q + 1)
        away == IF 2 * q + 1 >= 0 THEN q + 1 ELSE q
        toward == IF 2 * q + 1 >= 0 THEN q ELSE q + 1
    IN IF 2 * r # b THEN (IF 2 * r > b THEN q + 1 ELSE q)
       ELSE IF FloatError(p) = 0 THEN (IF q % 2 = 1 THEN q + 1 ELSE q)
       ELSE IF FloatError(p) > 0 THEN away ELSE toward

\* @app.get("/stats"): the division raises ZeroDivisionError on no employees
GetStats ==
    IF IsNone(rag_system) THEN NotInitialized
    ELSE LET employees == Get(rag_system).employees
             total_employees == Len(employees)
             all_skills == Concat([i \in 1..Len(employees) |-> employees[i].skills])
             skill_keys == Keys(all_skills, <<>>)
             departments ==
                 Concat([i \in 1..Len(employees) |->
                           IF Falsy(employees[i].department) THEN <<>>
                           ELSE <<Get(employees[i].department)>>])
             dept_keys == Keys(departments, <<>>)
         IN IF total_employees = 0 THEN HTTPException(500, "Internal Server Error")
            ELSE Ok([total_employees |-> total_employees,
                     available_employees |->
                         Cardinality({i \in 1..Len(employees) :
                                        employees[i].availability = "available"}),
                     average_experience_tenths |->
                         RoundTenths(SumSeq([i \in 1..Len(employees) |->
                                               employees[i].experience_years]),
                                     total_employees),
                     top_skills |->
                         SliceTo(SortedByCount([k \in 1..Len(skill_keys) |->
                                     <<skill_keys[k], Count(all_skills, skill_keys[k])>>]),
                                 10),
                     department_distribution |->
                         [k \in 1..Len(dept_keys) |->
                            <<dept_keys[k], Count(departments, dept_keys[k])>>]])

(***************************************************************************)
(* The requests the model sends.                                           *)
(***************************************************************************)
\* max_results of a ChatQuery that does not give it
DefaultMaxResults == 5

MaxResultsValues ==
    {None, Some(-1), Some(DefaultMaxResults)} \cup {Some(k) : k \in 0..MaxResults}

\* the similarity vectors the encoder and cosine_similarity can return
SimilarityVectors ==
    IF IsNone(rag_system) THEN {<<>>}
    ELSE [1..Len(Get(rag_system).employees) -> Scores]

\* ... for a query: the TF-IDF vector of "" is zero, and so is its cosine
\* similarity to every employee
SimilarityVectorsFor(query) ==
    IF /\ query = <<>>
       /\ ~IsNone(rag_system)
       /\ ~Get(rag_system).use_sentence_transformers
    THEN {[i \in 1..Len(Get(rag_system).employees) |-> 0]}
    ELSE SimilarityVectors

(***************************************************************************)
(* The state machine.                                                      *)
(***************************************************************************)
Environment ==
    /\ data_file \in {None} \cup {Some(l) : l \in EmployeeLists}
    /\ st_status \in StStatus

Init ==
    /\ Environment
    /\ phase = "startup"
    /\ rag_system = None
    /\ request = None
    /\ response = None
    /\ last_search = None
    /\ earlier = None
    /\ libraries = None
    /\ arg_query = <<>>
    /\ ret_requirements = None
    /\ in_flight = <<>>

env_vars == <<data_file, st_status, libraries>>
call_vars == <<arg_query, ret_requirements, in_flight>>

\* import of main.py: the module-level initialisation
Startup ==
    /\ phase = "startup"
    /\ rag_system' = InitializeRagSystem
    /\ phase' = "serving"
    /\ UNCHANGED <<env_vars, request, response, last_search, earlier, call_vars>>

Idle == phase = "serving" /\ IsNone(request)

\* a handler that only reads the system answers a request
Serve(req, resp) ==
    /\ Idle
    /\ request' = Some(req)
    /\ response' = Some(resp)
    /\ UNCHANGED <<env_vars, phase, rag_system, last_search, earlier, call_vars>>

\* ChatSearch with result lists that outlive the call: a later call appends
\* to what the call before it found
ChatSearchAccumulating(query, max_results, similarities, argsort) ==
    IF IsNone(rag_system) THEN None
    ELSE LET found == SearchEmployees(Get(rag_system), query, max_results, similarities, argsort)
         IN IF IsNone(last_search) \/ Raised(found) THEN Some(found)
            ELSE IF Raised(Get(last_search)) THEN Some(found)
            ELSE Some([employees |-> Get(last_search).employees \o found.employees,
                       scores |-> Get(last_search).scores \o found.scores,
                       indices |-> Get(last_search).indices \o found.indices])

\* the search_employees call of a POST /chat, None when the handler returns
\* before it
ChatSearch(query, max_results, similarities, argsort) ==
    IF IsNone(rag_system) THEN None
    ELSE Some(SearchEmployees(Get(rag_system), query, max_results, similarities, argsort))

\* Chat with a search that takes the last employee off self.employees
ChatPopping(query, max_results, similarities, argsort) ==
    /\ Idle
    /\ request' = Some([endpoint |-> "/chat", query |-> query,
                        max_results |-> max_results, similarities |-> similarities,
                        argsort |-> argsort])
    /\ last_search' = ChatSearch(query, max_results, similarities, argsort)
    /\ response' = Some(ChatQuery(query, last_search'))
    /\ rag_system' =
          IF IsNone(rag_system) THEN rag_system
          ELSE Some([Get(rag_system) EXCEPT
                       !.employees = SubSeq(@, 1, Max(Len(@) - 1, 0))])
    /\ UNCHANGED <<env_vars, phase, earlier, call_vars>>

\* POST /chat
Chat(query, max_results, similarities, argsort) ==
    /\ Idle
    /\ request' = Some([endpoint |-> "/chat", query |-> query,
                        max_results |-> max_results, similarities |-> similarities,
                        argsort |-> argsort])
    /\ last_search' = ChatSearch(query, max_results, similarities, argsort)
    /\ response' = Some(ChatQuery(query, last_search'))
    /\ UNCHANGED <<env_vars, phase, rag_system, earlier, call_vars>>

\* the same POST /chat once more: the unchanged index scores the query as before
ChatAgain ==
    /\ phase = "serving"
    /\ ~IsNone(request)
    /\ Get(request).endpoint = "/chat"
    /\ IsNone(earlier)
    /\ last_search' = ChatSearch(Get(request).query, Get(request).max_results,
                                 Get(request).similarities, Get(request).argsort)
    /\ response' = Some(ChatQuery(Get(request).query, last_search'))
    /\ earlier' = Some([query |-> Get(request).query,
                        max_results |-> Get(request).max_results,
                        response |-> Get(response), stage |-> "first"])
    /\ UNCHANGED <<env_vars, phase, rag_system, request, call_vars>>

\* the response is sent
Done ==
    /\ phase = "serving"
    /\ ~IsNone(request)
    /\ request' = None
    /\ response' = None
    /\ last_search' = None
    /\ earlier' = None
    /\ UNCHANGED <<env_vars, phase, rag_system, call_vars>>

SkillsParams ==
    { None, Some(<<"P","y","t","h","o","n",","," ","a","w","s">>),
      Some(<<"P","y","t","h","o","n",",","\r","","a","w","s","\f","">>) }
ExperienceParams == {None, Some(3)}
DepartmentParams == {None, Some(<<"e","n","g">>)}

Next ==
    \/ Startup
    \/ /\ Idle
       /\ \E q \in Queries, m \in MaxResultsValues :
             \E s \in SimilarityVectorsFor(q) :
             \E a \in Argsorts(s) : Chat(q, m, s, a)
    \/ ChatAgain
    \/ Done
    \/ Serve([endpoint |-> "/"], Root)
    \/ Serve([endpoint |-> "/employees"], GetAllEmployees)
    \/ /\ Idle
       /\ \E id \in 0..MaxEmployees :
             Serve([endpoint |-> "/employees/{employee_id}", employee_id |-> id],
                   GetEmployee(id))
    \/ /\ Idle
       /\ \E sk \in SkillsParams, lo \in ExperienceParams, hi \in ExperienceParams,
             av \in {None, Some("available")}, de \in DepartmentParams,
             m \in {Some(0), Some(1)} :
             Serve([endpoint |-> "/employees/search", skills |-> sk,
                    min_experience |-> lo, max_experience |-> hi, availability |-> av,
                    department |-> de, max_results |-> m],
                   SearchEmployeesEndpoint(sk, lo, hi, av, de, m))
    \/ Serve([endpoint |-> "/stats"], GetStats)

Spec == Init /\ [][Next]_vars

(***************************************************************************)
(* Direct calls of _extract_requirements on queries put together from      *)
(* fragments.                                                              *)
(***************************************************************************)
f_three == <<"3"," ","y","e","a","r","s"," ","e","x","p","e","r","i","e","n","c","e">>
f_available == <<","," ","a","v","a","i","l","a","b","l","e">>

Fragments ==
    { f_three, f_available,
      <<"1">>,
      <<"P","y","t","h","o","n"," ">>,
      <<"w","i","t","h"," ","5","+"," ","y","e","a","r","s">>,
      <<"2"," ","y","e","a","r","s"," ","o","f"," ","e","x","p","e","r","i","e","n","c","e">>,
      <<"7","+"," ","y","e","a","r","s">>,
      <<"h","e","l","l","o"," ">>,
      <<" ","e","x","p">>,
      <<"É","Σ"," ","۴","\r","y","e","a","r","s","\f",""," ","e","x","p">> }

InitExtract ==
    /\ data_file = None
    /\ st_status = "import_error"
    /\ phase = "call"
    /\ rag_system = None
    /\ request = None
    /\ response = None
    /\ last_search = None
    /\ earlier = None
    /\ libraries = None
    /\ arg_query = <<>>
    /\ ret_requirements = None
    /\ in_flight = <<>>

\* the caller extends the query it is about to pass
Compose(fragment) ==
    /\ Len(arg_query) < MaxFragments
    /\ arg_query' = Append(arg_query, fragment)
    /\ ret_requirements' = None
    /\ UNCHANGED <<env_vars, phase, rag_system, request, response, last_search, earlier,
                   in_flight>>

\* requirements = self._extract_requirements(query)
Extract ==
    /\ IsNone(ret_requirements)
    /\ ret_requirements' = Some(ExtractRequirements(Concat(arg_query)))
    /\ UNCHANGED <<env_vars, phase, rag_system, request, response, last_search, earlier,
                   arg_query, in_flight>>

NextExtract == (\E fragment \in Fragments : Compose(fragment)) \/ Extract

SpecExtract == InitExtract /\ [][NextExtract]_vars

(***************************************************************************)
(* POST /chat calls whose steps interleave on one initialised system.      *)
(* Each call has its own frame: the parameters and locals of               *)
(* search_employees and generate_response.  The loop of the search takes   *)
(* one step per candidate.                                                 *)
(***************************************************************************)
Calls == 1..MaxInFlight

\* the frame of a call that is not in progress
NoCall ==
    [pc |-> "idle", query |-> <<>>, max_results |-> 0, similarities |-> <<>>,
     argsort |-> <<>>, requirements |-> None, top_indices |-> <<>>, next |-> 1,
     filtered |-> NoResults, response |-> None]

\* the employees, queries and scores of the interleaved calls
ConcurrentCorpus == SubSeq(Roster, 1, 3)
ConcurrentQueries == {q_python, q_java9}
ConcurrentMaxResults == {1, 2}
ConcurrentSimilarities == {<<1, 0, 1>>}

InitConcurrent ==
    /\ data_file = Some(ConcurrentCorpus)
    /\ st_status \in {"ok", "import_error"}
    /\ phase = "serving"
    /\ rag_system = InitializeRagSystem
    /\ request = None
    /\ response = None
    /\ last_search = None
    /\ earlier = None
    /\ libraries = None
    /\ arg_query = <<>>
    /\ ret_requirements = None
    /\ in_flight = [c \in Calls |-> NoCall]

serving_vars == <<env_vars, phase, rag_system, request, response, last_search, earlier,
                  arg_query, ret_requirements>>

\* chat_query calls generate_response, which calls search_employees: the
\* search scores the query, extracts the requirements and cuts the ranking
Accept(c, query, max_results, similarities, argsort) ==
    /\ in_flight[c].pc = "idle"
    /\ ~IsNone(rag_system)
    /\ LET top_indices == TopIndices(argsort, max_results)
       IN in_flight' =
             [in_flight EXCEPT ![c] =
                [pc |-> IF top_indices = <<>> THEN "after" ELSE "loop",
                 query |-> query, max_results |-> max_results,
                 similarities |-> similarities, argsort |-> argsort,
                 requirements |-> Some(Extracted[query]),
                 top_indices |-> top_indices, next |-> 1,
                 filtered |-> NoResults, response |-> None]]
    /\ UNCHANGED serving_vars

\* Examine with one result list shared by all calls (that of call 1)
ExamineShared(c) ==
    /\ in_flight[c].pc = "loop"
    /\ LET frame == in_flight[c]
           idx == frame.top_indices[frame.next]
           emp == Get(rag_system).employees[idx]
           shared == in_flight[1].filtered
           appended == [employees |-> Append(shared.employees, emp),
                        scores |-> Append(shared.scores, frame.similarities[idx]),
                        indices |-> Append(shared.indices, idx)]
           passes == MatchesRequirements(emp, Get(frame.requirements))
           leaves == \/ passes /\ Len(appended.employees) >= frame.max_results
                     \/ frame.next = Len(frame.top_indices)
       IN in_flight' =
             [c2 \in Calls |->
                IF c2 = c
                THEN [frame EXCEPT !.next = @ + 1,
                                   !.pc = IF leaves THEN "after" ELSE "loop",
                                   !.filtered = IF passes /\ c = 1 THEN appended ELSE @]
                ELSE IF c2 = 1
                THEN [in_flight[1] EXCEPT !.filtered = IF passes THEN appended ELSE @]
                ELSE in_flight[c2]]
    /\ UNCHANGED serving_vars

\* one iteration of the for loop of either search method
Examine(c) ==
    /\ in_flight[c].pc = "loop"
    /\ LET frame == in_flight[c]
           idx == frame.top_indices[frame.next]
           emp == Get(rag_system).employees[idx]
           appended == [employees |-> Append(frame.filtered.employees, emp),
                        scores |-> Append(frame.filtered.scores, frame.similarities[idx]),
                        indices |-> Append(frame.filtered.indices, idx)]
           passes == MatchesRequirements(emp, Get(frame.requirements))
           leaves == \/ passes /\ Len(appended.employees) >= frame.max_results
                     \/ frame.next = Len(frame.top_indices)
       IN in_flight' =
             [in_flight EXCEPT ![c] =
                [frame EXCEPT !.next = @ + 1,
                              !.pc = IF leaves THEN "after" ELSE "loop",
                              !.filtered = IF passes THEN appended ELSE @]]
    /\ UNCHANGED serving_vars

\* after the loop: the fallback of _search_with_tfidf, the return of the
\* search, the rest of generate_response and the return of chat_query
Return(c) ==
    /\ in_flight[c].pc = "after"
    /\ LET frame == in_flight[c]
           found == IF /\ ~Get(rag_system).use_sentence_transformers
                       /\ frame.filtered.employees = <<>>
                    THEN TopSimilarity(Get(rag_system), frame.similarities,
                                       frame.top_indices, frame.max_results)
                    ELSE frame.filtered
       IN in_flight' =
             [in_flight EXCEPT ![c] =
                [frame EXCEPT !.pc = "done",
                              !.response = Some(ChatQuery(frame.query, Some(found)))]]
    /\ UNCHANGED serving_vars

\* the response is sent and the frame is gone
Deliver(c) ==
    /\ in_flight[c].pc = "done"
    /\ in_flight' = [in_flight EXCEPT ![c] = NoCall]
    /\ UNCHANGED serving_vars

NextConcurrent ==
    \E c \in Calls :
        \/ /\ in_flight[c].pc = "idle"
           /\ \E q \in ConcurrentQueries, m \in ConcurrentMaxResults,
                 s \in ConcurrentSimilarities :
                 \E a \in Argsorts(s) : Accept(c, q, m, s, a)
        \/ Examine(c)
        \/ Return(c)
        \/ Deliver(c)

SpecConcurrent == InitConcurrent /\ [][NextConcurrent]_vars

(***************************************************************************)
(* A POST /chat asked again after other requests.  Scoring a query         *)
(* (encode or transform, then cosine_similarity) and np.argsort are        *)
(* functions of their arguments within one process: which functions is     *)
(* fixed when the process starts, and the handlers have no way to change   *)
(* them.  Every call computes its similarities and their order anew from   *)
(* them.                                                                   *)
(***************************************************************************)
RepeatCorpus == SubSeq(Roster, 1, 3)
RepeatQueries == {q_python, q_three}
RepeatMaxResults == {Some(1), Some(2)}
RepeatSimilarities == {<<1, 0, 1>>, <<0, 1, 1>>}

\* the scoring and sorting functions a process can have
Libraries ==
    {l \in [similarities : [RepeatQueries -> RepeatSimilarities],
            argsort : [RepeatSimilarities -> TieOrders[Len(RepeatCorpus)]]] :
        \A s \in RepeatSimilarities : l.argsort[s] \in Argsorts(s)}

InitRepeat ==
    /\ data_file = Some(RepeatCorpus)
    /\ st_status \in {"ok", "import_error"}
    /\ phase = "serving"
    /\ rag_system = InitializeRagSystem
    /\ request = None
    /\ response = None
    /\ last_search = None
    /\ earlier = None
    /\ libraries \in Libraries
    /\ arg_query = <<>>
    /\ ret_requirements = None
    /\ in_flight = <<>>

\* req asks what the remembered request asked
Repeats(req) ==
    /\ ~IsNone(earlier)
    /\ req.endpoint = "/chat"
    /\ req.query = Get(earlier).query
    /\ req.max_results = Get(earlier).max_results

\* the remembered request after req was answered with resp: a first POST
\* /chat may be remembered; later the record tells whether another request
\* came after it ("other") and whether it was then repeated ("again")
Observe(req, resp, remember) ==
    IF IsNone(earlier)
    THEN IF remember /\ req.endpoint = "/chat"
         THEN Some([query |-> req.query, max_results |-> req.max_results,
                    response |-> resp, stage |-> "first"])
         ELSE None
    ELSE IF Repeats(req)
         THEN Some([Get(earlier) EXCEPT !.stage = IF @ = "first" THEN @ ELSE "again"])
         ELSE Some([Get(earlier) EXCEPT !.stage = IF @ = "first" THEN "other" ELSE @])

\* POST /chat in a process with these libraries
Ask(query, max_results, remember) ==
    /\ Idle
    /\ LET similarities == libraries.similarities[query]
           argsort == libraries.argsort[similarities]
       IN /\ request' = Some([endpoint |-> "/chat", query |-> query,
                              max_results |-> max_results,
                              similarities |-> similarities, argsort |-> argsort])
          /\ last_search' = ChatSearch(query, max_results, similarities, argsort)
    /\ response' = Some(ChatQuery(query, last_search'))
    /\ earlier' = Observe(Get(request'), Get(response'), remember)
    /\ UNCHANGED <<env_vars, phase, rag_system, call_vars>>

\* a handler that only reads the system answers a request
Answer(req, resp) ==
    /\ Idle
    /\ request' = Some(req)
    /\ response' = Some(resp)
    /\ earlier' = Observe(req, resp, FALSE)
    /\ UNCHANGED <<env_vars, phase, rag_system, last_search, call_vars>>

\* the response is sent
Sent ==
    /\ phase = "serving"
    /\ ~IsNone(request)
    /\ request' = None
    /\ response' = None
    /\ UNCHANGED <<env_vars, phase, rag_system, last_search, earlier, call_vars>>

NextRepeat ==
    \/ /\ Idle
       /\ \E q \in RepeatQueries, m \in RepeatMaxResults, remember \in BOOLEAN :
             Ask(q, m, remember)
    \/ Answer([endpoint |-> "/"], Root)
    \/ Answer([endpoint |-> "/employees"], GetAllEmployees)
    \/ \E id \in 1..2 :
          Answer([endpoint |-> "/employees/{employee_id}", employee_id |-> id],
                 GetEmployee(id))
    \/ Answer([endpoint |-> "/employees/search", skills |-> Some(q_python),
               min_experience |-> None, max_experience |-> None,
               availability |-> None, department |-> None, max_results |-> Some(1)],
              SearchEmployeesEndpoint(Some(q_python), None, None, None, None, Some(1)))
    \/ Answer([endpoint |-> "/stats"], GetStats)
    \/ Sent

SpecRepeat == InitRepeat /\ [][NextRepeat]_vars

(***************************************************************************)
(* Properties.                                                             *)
(***************************************************************************)
\* a POST /chat has been handled
ChatHandled ==
    /\ phase = "serving"
    /\ ~IsNone(request)
    /\ Get(request).endpoint = "/chat"

\* ... and its search_employees call returned
ChatSearched ==
    /\ ChatHandled
    /\ ~IsNone(last_search)
    /\ ~Raised(Get(last_search))

\* the candidates the loops examine for the handled request
Window ==
    TopIndices(Get(request).argsort, Get(Get(request).max_results))

\* the employee at a code index of the system
EmployeeAt(idx) == Get(rag_system).employees[idx]

\* no examined candidate passes the filter
NonePasses ==
    \A k \in 1..Len(Window) :
        ~MatchesRequirements(EmployeeAt(Window[k]), Extracted[Get(request).query])

\* an employee satisfies the constraints extracted from a query
Satisfies(emp, requirements) ==
    /\ IsNone(requirements.experience)
          \/ emp.experience_years >= Get(requirements.experience)
    /\ IsNone(requirements.availability)
          \/ emp.availability = Get(requirements.availability)
    /\ requirements.skills = <<>>
          \/ \E k \in 1..Len(requirements.skills) : SkillMatches(requirements.skills[k], emp)

\* C1: for max_results >= 1 a search returns at most max_results employees
\* and as many scores as employees, under either strategy, and the response
\* holds at most max_results employees.
C1_AtMostMaxResults ==
    (ChatSearched /\ Get(Get(request).max_results) >= 1) =>
        /\ Len(Get(last_search).employees) <= Get(Get(request).max_results)
        /\ Len(Get(last_search).scores) = Len(Get(last_search).employees)
        /\ Len(Get(response).body.matched_employees) <= Get(Get(request).max_results)

\* C1 witness: the TF-IDF fallback cut the ranking of a larger index to
\* exactly max_results employees.
C1_Witness ==
    /\ ChatSearched
    /\ ~Get(rag_system).use_sentence_transformers
    /\ Get(Get(request).max_results) >= 1
    /\ NonePasses
    /\ Len(Get(rag_system).employees) > Get(Get(request).max_results)
    /\ Len(Get(last_search).employees) = Get(Get(request).max_results)

\* C2: every returned employee satisfies the constraints extracted from the
\* query, unless the strategy is TF-IDF and no examined candidate passed.
C2_ReturnedSatisfy ==
    (ChatSearched /\ (Get(rag_system).use_sentence_transformers \/ ~NonePasses)) =>
        \A k \in 1..Len(Get(last_search).employees) :
            Satisfies(Get(last_search).employees[k], Extracted[Get(request).query])

\* C2 witness: a query with constraints returned an employee although an
\* examined candidate violated them.
C2_Witness ==
    /\ ChatSearched
    /\ Get(last_search).employees # <<>>
    /\ ~NonePasses
    /\ Extracted[Get(request).query].skills # <<>>
    /\ ~IsNone(Extracted[Get(request).query].experience)
    /\ \E k \in 1..Len(Window) :
          ~Satisfies(EmployeeAt(Window[k]), Extracted[Get(request).query])

\* C3 (as claimed): a POST /chat with max_results <= 0 is answered with an
\* error, never with a ChatResponse.
C3_NonPositiveFails ==
    (/\ ChatHandled
     /\ ~IsNone(Get(request).max_results)
     /\ Get(Get(request).max_results) <= 0) => Get(response).status # 200

\* C4 (as claimed): no system object results from an empty employee list.
C4_EmptyListFails ==
    (phase = "serving" /\ data_file = Some(<<>>)) => IsNone(rag_system)

\* C5: a search that returns no employee is answered with status 200: the
\* apology, no matched employees and confidence 0.
C5_ZeroMatchesApology ==
    (ChatSearched /\ Get(last_search).employees = <<>>) =>
        Get(response) = Ok([response |-> Apology, matched_employees |-> <<>>,
                            confidence_score |-> Zero])

\* C5 witness: the sentence-transformers search found no match for a
\* positive max_results among the employees.
C5_Witness ==
    /\ ChatSearched
    /\ Get(rag_system).use_sentence_transformers
    /\ Get(Get(request).max_results) >= 1
    /\ Get(last_search).employees = <<>>
    /\ Get(response).status = 200

\* the first n employees of the ranking with their scores
TopOfRanking(n) ==
    LET ranking == Ranking(Get(request).argsort)
    IN [employees |-> [k \in 1..n |-> EmployeeAt(ranking[k])],
        scores |-> [k \in 1..n |-> Get(request).similarities[ranking[k]]],
        indices |-> SubSeq(ranking, 1, n)]

\* C6: when no examined candidate passes (max_results >= 0), TF-IDF returns
\* the first min(max_results, employees) of the ranking and the
\* sentence-transformers search returns nothing.
C6_FallbackByStrategy ==
    (ChatSearched /\ Get(Get(request).max_results) >= 0 /\ NonePasses) =>
        IF Get(rag_system).use_sentence_transformers
        THEN Get(last_search) = NoResults
        ELSE Get(last_search) =
                TopOfRanking(Min(Get(Get(request).max_results),
                                 Len(Get(rag_system).employees)))

\* C6 witness: the TF-IDF fallback returned an employee that violates the
\* constraints of the query.
C6_Witness ==
    /\ ChatSearched
    /\ ~Get(rag_system).use_sentence_transformers
    /\ Get(Get(request).max_results) >= 1
    /\ NonePasses
    /\ \E k \in 1..Len(Get(last_search).employees) :
          ~Satisfies(Get(last_search).employees[k], Extracted[Get(request).query])

\* C7 (as claimed): a query that contains "3 years experience" and
\* "available" yields experience 3, availability available and no skills.
C7_ThreeYearsAvailable ==
    (/\ ~IsNone(ret_requirements)
     /\ Contains(Concat(arg_query), f_three)
     /\ Contains(Concat(arg_query), w_available)) =>
        /\ Get(ret_requirements).experience = Some(3)
        /\ Get(ret_requirements).availability = Some("available")
        /\ Get(ret_requirements).skills = <<>>

\* the ranking of the handled request: code indices and their scores
RankingNow == Ranking(Get(request).argsort)
ScoreNow(idx) == Get(request).similarities[idx]

\* C8 (as claimed): the ranking is descending by score and puts equal
\* scores in the order of the employee list.
C8_StableTieBreak ==
    ChatSearched =>
        \A a, b \in 1..Len(RankingNow) :
            a < b => \/ ScoreNow(RankingNow[a]) > ScoreNow(RankingNow[b])
                     \/ /\ ScoreNow(RankingNow[a]) = ScoreNow(RankingNow[b])
                        /\ RankingNow[a] < RankingNow[b]

\* np.argsort put equal scores in the order of their indices
StableNow ==
    \A a, b \in 1..Len(Get(request).argsort) :
        (a < b /\ ScoreNow(Get(request).argsort[a]) = ScoreNow(Get(request).argsort[b]))
            => Get(request).argsort[a] < Get(request).argsort[b]

\* C8 (amended): the ranking holds every employee once, by descending
\* score; equal scores are in the reverse of np.argsort's order, which is
\* the reverse of the employee list order where that sort is stable.
C8_DescendingReversedTies ==
    ChatSearched =>
        /\ {RankingNow[a] : a \in 1..Len(RankingNow)}
              = 1..Len(Get(rag_system).employees)
        /\ Len(RankingNow) = Len(Get(rag_system).employees)
        /\ \A a, b \in 1..Len(RankingNow) :
              a < b => ScoreNow(RankingNow[a]) >= ScoreNow(RankingNow[b])
        /\ \A a \in 1..Len(RankingNow) :
              RankingNow[a] = Get(request).argsort[Len(RankingNow) + 1 - a]
        /\ StableNow =>
              \A a, b \in 1..Len(RankingNow) :
                 (a < b /\ ScoreNow(RankingNow[a]) = ScoreNow(RankingNow[b]))
                    => RankingNow[a] > RankingNow[b]

\* C8 witness: a ranking of three employees with two equal scores and one
\* that differs, made with a stable sort.
C8_Witness ==
    /\ ChatSearched
    /\ Len(RankingNow) = 3
    /\ StableNow
    /\ \E a, b, c \in 1..3 :
          /\ a < b
          /\ ScoreNow(a) = ScoreNow(b)
          /\ ScoreNow(c) # ScoreNow(a)

\* C9: a POST /chat with the query and max_results of an earlier one, whatever
\* requests were answered in between, gets the response the earlier one got:
\* the same text, the same matched employees in the same order, the same
\* confidence (the index is unchanged by C10; the process, and with it what
\* its libraries compute, is the same).
C9_SameAnswer ==
    (ChatHandled /\ Repeats(Get(request))) => Get(response) = Get(earlier).response

\* C9 witness: after other requests the remembered request was asked again;
\* its two best candidates score the same and both were returned.
C9_Witness ==
    /\ ChatHandled
    /\ Repeats(Get(request))
    /\ Get(earlier).stage = "again"
    /\ Get(request).similarities = <<1, 0, 1>>
    /\ Get(response).status = 200
    /\ Len(Get(response).body.matched_employees) = 2

\* C10: once main.py is imported no step changes the RAGSystem object: its
\* employees, texts, embeddings, vectorizer, model and strategy flag.
C10_SystemUnchanged == [][phase = "serving" => rag_system' = rag_system]_vars

\* C10 witness: a POST /chat failed on an initialised system.
C10_Witness ==
    /\ ChatHandled
    /\ ~IsNone(rag_system)
    /\ Get(response).status = 500

\* what a call in progress would be answered if it were the only one
AloneResponse(c) ==
    ChatQuery(in_flight[c].query,
              ChatSearch(in_flight[c].query, Some(in_flight[c].max_results),
                         in_flight[c].similarities, in_flight[c].argsort))

\* C11: whatever the interleaving of the steps of the calls in progress, a
\* call is answered what the same request is answered when handled alone.
C11_AnsweredAsAlone ==
    \A c \in DOMAIN in_flight :
        in_flight[c].pc = "done" => in_flight[c].response = Some(AloneResponse(c))

\* C11 witness: a call was answered with an employee while another call,
\* for a different query, was inside its loop with a result collected.
C11_Witness ==
    \E c, d \in DOMAIN in_flight :
        /\ in_flight[c].pc = "done"
        /\ Get(in_flight[c].response).status = 200
        /\ Get(in_flight[c].response).body.matched_employees # <<>>
        /\ in_flight[d].pc = "loop"
        /\ in_flight[d].query # in_flight[c].query
        /\ in_flight[d].filtered.employees # <<>>

\* C12: nothing is answered while main.py is being imported, and without a
\* system every /chat, /employees and /stats request is rejected with the
\* error "RAG system not initialized".
C12_InitializationBarrier ==
    /\ phase = "startup" => (IsNone(response) /\ IsNone(rag_system))
    /\ (/\ ~IsNone(request)
        /\ Get(request).endpoint \in {"/chat", "/employees", "/stats"}
        /\ IsNone(rag_system)) => Get(response) = NotInitialized
    /\ (/\ ~IsNone(request)
        /\ Get(request).endpoint \in {"/chat", "/employees", "/stats"}
        /\ Get(response).status = 200) => (phase = "serving" /\ ~IsNone(rag_system))

\* C12 witness: the data file was there, the constructor raised, and a
\* POST /chat was rejected.
C12_Witness ==
    /\ ChatHandled
    /\ ~IsNone(data_file)
    /\ Get(data_file) # <<>>
    /\ IsNone(rag_system)
    /\ Get(response) = NotInitialized

\* the strategy flag agrees with the index that was built
IndexOfStrategy(self) ==
    IF self.use_sentence_transformers
    THEN self.employee_embeddings.kind = "dense" /\ ~IsNone(self.model)
    ELSE self.employee_embeddings.kind = "tfidf" /\ ~IsNone(self.vectorizer)

\* C13: once there is a system no step changes its strategy flag, the index
\* is the one of that strategy, and every search is the one of that strategy.
C13_StrategyFixed ==
    [][(phase = "serving" /\ ~IsNone(rag_system)) =>
          /\ ~IsNone(rag_system')
          /\ Get(rag_system').use_sentence_transformers
                = Get(rag_system).use_sentence_transformers
          /\ IndexOfStrategy(Get(rag_system'))
          /\ ChatSearched' =>
                Get(last_search') =
                   IF Get(rag_system).use_sentence_transformers
                   THEN SearchWithSentenceTransformers(
                            Get(rag_system), Get(request').query,
                            Get(Get(request').max_results),
                            Get(request').similarities, Get(request').argsort)
                   ELSE SearchWithTfidf(
                            Get(rag_system), Get(request').query,
                            Get(Get(request').max_results),
                            Get(request').similarities, Get(request').argsort)]_vars

\* C13 witness: a second search on a TF-IDF index returned an employee.
C13_Witness ==
    /\ ChatSearched
    /\ ~IsNone(earlier)
    /\ ~Get(rag_system).use_sentence_transformers
    /\ Get(rag_system).employee_embeddings.kind = "tfidf"
    /\ Get(last_search).employees # <<>>

\* C14 (as claimed): whenever sentence-transformers cannot be used at
\* startup, a non-empty employee list gets a TF-IDF system.
C14_FallsBackToLexical ==
    (/\ phase = "serving"
     /\ ~IsNone(data_file)
     /\ Get(data_file) # <<>>
     /\ st_status # "ok") =>
        (~IsNone(rag_system) /\ ~Get(rag_system).use_sentence_transformers)

\* C15: on the employees A, B, C the query "Find Python developers with 3+
\* years experience who are available" with max_results 5 returns A and C,
\* each once, and not B.
C15_PythonAvailableExample ==
    (/\ ChatSearched
     /\ Get(rag_system).employees = SubSeq(Roster, 1, 3)
     /\ Get(request).query = q_find
     /\ Get(request).max_results = Some(DefaultMaxResults)) =>
        /\ Len(Get(last_search).employees) = 2
        /\ {Get(last_search).employees[k] : k \in 1..2} = {Roster[1], Roster[3]}
        /\ Get(response).status = 200
        /\ Get(response).body.matched_employees = Get(last_search).employees

\* C15 witness: the example on a TF-IDF index that scores B highest.
C15_Witness ==
    /\ ChatSearched
    /\ ~Get(rag_system).use_sentence_transformers
    /\ Get(rag_system).employees = SubSeq(Roster, 1, 3)
    /\ Get(request).query = q_find
    /\ Get(request).max_results = Some(DefaultMaxResults)
    /\ RankingNow[1] = 2
    /\ ScoreNow(2) > ScoreNow(1)
    /\ Len(Get(last_search).employees) = 2

\* no skill, experience or availability is extracted from a query
NoConstraints(query) ==
    /\ Extracted[query].skills = <<>>
    /\ IsNone(Extracted[query].experience)
    /\ IsNone(Extracted[query].availability)

\* C16: a query without constraints (max_results >= 0) returns the first
\* min(max_results, employees) of the ranking with their scores, in order.
C16_NoConstraintsTopOfRanking ==
    (/\ ChatSearched
     /\ Get(Get(request).max_results) >= 0
     /\ NoConstraints(Get(request).query)) =>
        Get(last_search) = TopOfRanking(Min(Get(Get(request).max_results),
                                            Len(Get(rag_system).employees)))

\* C16 witness: "hello" against more employees than max_results >= 1,
\* under sentence-transformers.
C16_Witness ==
    /\ ChatSearched
    /\ Get(rag_system).use_sentence_transformers
    /\ Get(request).query = q_hello
    /\ Get(Get(request).max_results) >= 1
    /\ Len(Get(rag_system).employees) > Get(Get(request).max_results)
    /\ Len(Get(last_search).employees) = Get(Get(request).max_results)

\* sub is seq with elements left out
RECURSIVE IsSubsequence(_, _)
IsSubsequence(sub, seq) ==
    IF sub = <<>> THEN TRUE
    ELSE IF seq = <<>> THEN FALSE
    ELSE IF sub[1] = seq[1] THEN IsSubsequence(Tail(sub), Tail(seq))
    ELSE IsSubsequence(sub, Tail(seq))

\* the code indices of the employees the search returned
ReturnedIndices == Get(last_search).indices

\* C17: the returned employees are a subsequence of the ranking, none
\* repeated, by descending score; the k-th score is the similarity of the
\* k-th employee; the response holds the employees in the order of the search.
C17_SubsequenceOfRanking ==
    ChatSearched =>
        /\ Len(Get(last_search).employees) = Len(ReturnedIndices)
        /\ \A k \in 1..Len(ReturnedIndices) :
              Get(last_search).employees[k] = EmployeeAt(ReturnedIndices[k])
        /\ IsSubsequence(ReturnedIndices, RankingNow)
        /\ \A j, k \in 1..Len(ReturnedIndices) :
              j < k => /\ ReturnedIndices[j] # ReturnedIndices[k]
                       /\ Get(last_search).scores[j] >= Get(last_search).scores[k]
        /\ Len(Get(last_search).scores) = Len(ReturnedIndices)
        /\ \A k \in 1..Len(ReturnedIndices) :
              Get(last_search).scores[k] = ScoreNow(ReturnedIndices[k])
        /\ Get(response).status = 200
        /\ Get(response).body.matched_employees = Get(last_search).employees

\* C17 witness: two employees were returned and the candidate ranked
\* between them was filtered out.
C17_Witness ==
    /\ ChatSearched
    /\ Len(RankingNow) = 3
    /\ ReturnedIndices = <<RankingNow[1], RankingNow[3]>>
    /\ ScoreNow(RankingNow[1]) > ScoreNow(RankingNow[3])

\* the positions where a maximal run of digits starts
NumberStarts(s) ==
    {i \in 1..Len(s) : IsDigit(s[i]) /\ (i = 1 \/ ~IsDigit(s[i - 1]))}

\* the number that starts at position i
NumberAt(s, i) == ToInt(SubSeq(s, i, AfterDigits(s, i) - 1))

\* the number at i is phrased "N years experience", "N+ years" or "with N years"
PhrasedAt(s, i) ==
    LET d == AfterDigits(s, i)
    IN \/ OccursAt(s, d, <<" ">> \o w_year \o <<"s", " ">> \o w_experience)
       \/ OccursAt(s, d, <<"+", " ">> \o w_year \o <<"s">>)
       \/ /\ OccursAt(s, i - 5, w_with \o <<" ">>)
          /\ OccursAt(s, d, <<" ">> \o w_year \o <<"s">>)

\* C18 (as claimed): a query whose only number N is phrased "N years
\* experience", "N+ years" or "with N years" yields the experience N.
C18_PhrasingYieldsN ==
    ~IsNone(ret_requirements) =>
        LET s == Lower(Concat(arg_query))
        IN \A i \in NumberStarts(s) :
              (NumberStarts(s) = {i} /\ PhrasedAt(s, i)) =>
                  Get(ret_requirements).experience = Some(NumberAt(s, i))

\* C19 (as claimed): with a strategy in place, an empty query or an empty
\* employee list is answered without error and with no employee.
C19_EmptyYieldsEmpty ==
    (/\ ChatHandled
     /\ st_status \in {"ok", "import_error"}
     /\ ~IsNone(data_file)
     /\ ~IsNone(Get(request).max_results)
     /\ Get(Get(request).max_results) >= 1
     /\ (Get(request).query = <<>> \/ Get(data_file) = <<>>)) =>
        /\ Get(response).status = 200
        /\ Get(response).body.matched_employees = <<>>

\* the place of a code index in the ranking of the handled request
PlaceInRanking(idx) == CHOOSE a \in 1..Len(RankingNow) : RankingNow[a] = idx

\* C20: for max_results >= 0 every returned employee is among the first
\* 2 * max_results of the ranking.
C20_OnlyWindowReturned ==
    (ChatSearched /\ Get(Get(request).max_results) >= 0) =>
        \A k \in 1..Len(ReturnedIndices) :
            PlaceInRanking(ReturnedIndices[k]) <= 2 * Get(Get(request).max_results)

\* C20 witness: no candidate of the window passed, an employee ranked
\* below the window satisfies the query, and the TF-IDF fallback returned
\* an employee that does not.
C20_Witness ==
    /\ ChatSearched
    /\ ~Get(rag_system).use_sentence_transformers
    /\ Get(Get(request).max_results) >= 1
    /\ NonePasses
    /\ ~NoConstraints(Get(request).query)
    /\ \E a \in 1..Len(RankingNow) :
          /\ a > 2 * Get(Get(request).max_results)
          /\ Satisfies(EmployeeAt(RankingNow[a]), Extracted[Get(request).query])
    /\ Get(last_search).employees # <<>>
    /\ \A k \in 1..Len(Get(last_search).employees) :
          ~Satisfies(Get(last_search).employees[k], Extracted[Get(request).query])

\* C21: a POST /chat with max_results >= 1 on a TF-IDF index of one or more
\* employees is answered with an employee or more, never with the apology;
\* so an apology for max_results >= 1 comes from sentence-transformers.
C21_TfidfNeverApologises ==
    /\ (/\ ChatHandled
        /\ ~IsNone(rag_system)
        /\ ~Get(rag_system).use_sentence_transformers
        /\ Get(rag_system).employees # <<>>
        /\ ~IsNone(Get(request).max_results)
        /\ Get(Get(request).max_results) >= 1) =>
           /\ ChatSearched
           /\ Len(Get(last_search).employees) >= 1
           /\ Get(response).status = 200
           /\ Get(response).body.response # Apology
           /\ Get(response).body.matched_employees # <<>>
    /\ (/\ ChatSearched
        /\ Get(Get(request).max_results) >= 1
        /\ Get(response).body.response = Apology) =>
           Get(rag_system).use_sentence_transformers

\* C21 witness: on a TF-IDF index every similarity was 0 and no candidate
\* passed the constraints of the query, and an employee was returned.
C21_Witness ==
    /\ ChatSearched
    /\ ~Get(rag_system).use_sentence_transformers
    /\ Get(Get(request).max_results) >= 1
    /\ ~NoConstraints(Get(request).query)
    /\ NonePasses
    /\ \A i \in 1..Len(Get(request).similarities) : Get(request).similarities[i] = 0
    /\ Get(response).body.matched_employees # <<>>
    /\ Get(response).body.confidence_score = Quotient(0, Len(Get(last_search).scores))

====
